---- MODULE Spec2Model ----
(***************************************************************************)
(* drata-mcp: the paginating API client (src/drata_mcp/client.py) and the  *)
(* tool layer built on it (src/drata_mcp/server.py).                       *)
(*                                                                         *)
(* An upstream record is an integer: its position in the upstream          *)
(* collection.  The client never looks inside a record; the tool layer     *)
(* reads a record's fields through the tables further down.                *)
(***************************************************************************)
EXTENDS Integers, Sequences, FiniteSets, TLC

VARIABLES
    upstream,     \* the remote service: [consistent, T, base]
    self_client,  \* DrataClient._client: 0 (None) or an index into sessions
    sessions,     \* every httpx.AsyncClient created so far
    pc,           \* position of the running client operation
    op,           \* name of the client operation called last
    params,       \* the query parameters of the operation
    all_data,     \* _paginate_all: the accumulator
    total,        \* _paginate_all: the latest reported total
    exchanges,    \* the requests the operation has sent, with what came back
    result,       \* what the operation returned, until a tool takes it
    api_key,      \* os.getenv("DRATA_API_KEY") is set
    _client,      \* server.py: the global client instance, "None" at first
    tool,         \* the tool invoked last
    tool_args,    \* its arguments
    tool_pc,      \* its position
    fetched,      \* its local variables: what its client calls returned
    tool_result,  \* what it returned to the host
    tasks         \* the calls that run concurrently on the client, with their locals

clientvars == <<self_client, sessions, pc, op, params, all_data, total,
                exchanges, result>>
toolvars == <<api_key, _client, tool, tool_args, tool_pc, fetched, tool_result>>
vars == <<upstream, clientvars, toolvars, tasks>>

----------------------------------------------------------------------------
(* Program constants *)

MAX_PAGE_SIZE == 50

(* Bounds of the model *)

MaxPages == 2       \* an inconsistent upstream lets a fetch run this many pages
MaxRecords == 101   \* a consistent upstream holds at most this many records
MaxSessions == 2    \* sessions created in one run
MaxTasks == 2       \* calls that run concurrently on one client
MaxGreedyPages == 40  \* pages a fetch is followed for when nothing ends it
MaxTotal == 101     \* the largest total a bounded upstream reports

----------------------------------------------------------------------------
(* Values *)

None == 0           \* self._client is None
Missing == -1       \* a key the response does not carry

Min(a, b) == IF a < b THEN a ELSE b

Last(s) == s[Len(s)]

\* n consecutive records, the first one being record number o
Run(o, n) == [i \in 1..n |-> o + i - 1]

NoParams == [page |-> 0, limit |-> 0]
NoResult == [data |-> <<>>, total |-> Missing]

----------------------------------------------------------------------------
(* The operations of DrataClient *)

CappedOps == {"list_controls", "list_monitors", "list_personnel"}
UncappedOps == {"list_policies", "list_user_policies", "list_connections",
                "list_vendors", "list_devices", "list_assets", "list_events"}
SinglePageOps == CappedOps \cup UncappedOps
PaginateOps == {"list_all_controls", "list_all_monitors", "list_all_personnel"}

\* the default of the limit argument, when the caller leaves it out
DefaultLimit(o) == IF o \in CappedOps THEN 50 ELSE 100

\* the limit query parameter a single-page operation builds from its argument
LimitParam(o, limit) ==
    IF o \in CappedOps THEN Min(limit, MAX_PAGE_SIZE) ELSE limit

\* the limits a caller passes; 0 stands for leaving the argument out
LimitArgs == {0, 1, MAX_PAGE_SIZE, MAX_PAGE_SIZE + 1, 2 * MAX_PAGE_SIZE}
PageArgs == {1, 2}

----------------------------------------------------------------------------
(* The session: _get_client and close *)

NewSession == [is_closed |-> FALSE, aclose_calls |-> 0]

\* _get_client without the is_closed test
NeedsNewSessionOnlyNone(c, s) == c = None

\* the condition under which _get_client builds a new httpx.AsyncClient
NeedsNewSession(c, s) == c = None \/ s[c].is_closed

GetClientSessions(c, s) == IF NeedsNewSession(c, s) THEN Append(s, NewSession) ELSE s
GetClient(c, s) == IF NeedsNewSession(c, s) THEN Len(s) + 1 ELSE c

\* close() without the is_closed test
ShouldCloseAnySession(c, s) == c # None

\* the condition under which close() awaits aclose()
ShouldClose(c, s) == c # None /\ ~s[c].is_closed

AClose(c, s) ==
    [s EXCEPT ![c] = [is_closed |-> TRUE, aclose_calls |-> @.aclose_calls + 1]]

CloseSessions(c, s) == IF ShouldClose(c, s) THEN AClose(c, s) ELSE s

----------------------------------------------------------------------------
(* The upstream *)

\* the page a request asks for: the first one when it names none
PageOf(p) == IF p.page = 0 THEN 1 ELSE p.page

\* the page a consistent upstream holding T records serves: at most
\* MAX_PAGE_SIZE records, in order
ConsistentPage(p) ==
    LET size == Min(p.limit, MAX_PAGE_SIZE)
        first == (PageOf(p) - 1) * size + 1
        last == Min(PageOf(p) * size, upstream.T)
    IN  [status |-> 200,
         data |-> IF first > last THEN <<>>
                  ELSE Run(upstream.base + first - 1, last - first + 1),
         total |-> upstream.T]

PageLens == {0, 1, 2, MAX_PAGE_SIZE - 1, MAX_PAGE_SIZE, MAX_PAGE_SIZE + 1}
Totals == {Missing} \cup {k * MAX_PAGE_SIZE + d : k \in 0..MaxPages, d \in {0, 1}}

\* what any upstream may answer to a request for page p.page
ArbitraryPages(p) ==
    {[status |-> st, data |-> Run(upstream.base + (PageOf(p) - 1) * MAX_PAGE_SIZE, n),
      total |-> t] : st \in {200, 500}, n \in PageLens, t \in Totals}

Responses(p) ==
    IF upstream.consistent THEN {ConsistentPage(p)} ELSE ArbitraryPages(p)

----------------------------------------------------------------------------
(* _paginate_all, one piece per statement of the loop *)

\* result.get(key, default)
GetOr(value, default) == IF value = Missing THEN default ELSE value

\* the accumulator replaced by the page instead of extended
ExtendOverwrites(acc, data) == data

\* all_data.extend(data)
Extend(acc, data) == acc \o data

\* the second break condition with > for >=
StopsLoopStrict(data, acc, tot) == Len(data) < MAX_PAGE_SIZE \/ Len(acc) > tot

\* the loop with its first break condition only
StopsLoopOnShortPage(data, acc, tot) == Len(data) < MAX_PAGE_SIZE

\* the loop with a ceiling on the number of pages
StopsLoopWithCeiling(data, acc, tot) ==
    \/ Len(data) < MAX_PAGE_SIZE
    \/ Len(acc) >= tot
    \/ Len(acc) >= MaxGreedyPages * MAX_PAGE_SIZE

\* the two break conditions
StopsLoop(data, acc, tot) == Len(data) < MAX_PAGE_SIZE \/ Len(acc) >= tot

\* params["page"] += 1
NextPage(p) == [p EXCEPT !.page = @ + 1]

\* a _request that never raises on the status
RaiseForStatusNever(resp) == FALSE

\* response.raise_for_status(): TRUE when it raises
RaiseForStatus(resp) == resp.status # 200

\* a list_users that posts
MethodPostsUsers(o) == IF o = "list_users" THEN "POST" ELSE "GET"

\* the method operation o passes to _request
Method(o) == "GET"

\* the entry of exchanges for a request sent with parameters p on session sid;
\* acc and total are the accumulator's length and the total of _paginate_all
\* after the answer, and 0 outside _paginate_all
Exchange(path, p, sid, s, resp, acc, tot) ==
    [path |-> path, method |-> Method(path), page |-> p.page, limit |-> p.limit,
     session |-> sid, session_open |-> ~s[sid].is_closed,
     status |-> resp.status,
     n |-> Len(resp.data), acc |-> acc, total |-> tot]

----------------------------------------------------------------------------
(* The records the upstream serves.  Record number r of a collection has   *)
(* the fields of line r of the collection's table, the tables running      *)
(* through every combination of the field values below.                    *)

\* a flag of a control: absent or null, false, true
Flags == <<"None", "False", "True">>
\* a timestamp: absent or null, or set
Timestamps == <<"None", "2024-01-01T00:00:00Z">>

\* the code of a control, "None" when the record has none
ControlCodes == <<"DCF-1", "DCF-12", "None">>

\* records numbered from NullFrom on carry null in their nested fields
\* (description, controls, user); the records below it carry a value or
\* lack the key
NullFrom == 4 * MaxRecords
Nulled(r) == r >= NullFrom

ControlKinds == Len(Timestamps) * Len(Flags) * Len(Flags) * Len(Flags) * Len(Flags)

\* c.get(key) of control number r
ControlGet(r, key) ==
    LET k == r % ControlKinds
    IN  CASE key = "archivedAt" -> Timestamps[(k % 2) + 1]
          [] key = "isReady" -> Flags[((k \div 2) % 3) + 1]
          [] key = "hasOwner" -> Flags[((k \div 6) % 3) + 1]
          [] key = "isMonitored" -> Flags[((k \div 18) % 3) + 1]
          [] key = "hasEvidence" -> Flags[((k \div 54) % 3) + 1]
          [] key = "code" -> ControlCodes[(k % 3) + 1]

CheckResultStatuses == <<"FAILED", "PASSED", "NOT_TESTED", "None">>

\* a list field: the key absent, or null
AbsentList == <<"Absent">>
NullList == <<"Null">>
\* the codes of the controls a monitor is attached to
MonitorControls == <<AbsentList, <<>>, <<"DCF-1">>, <<"DCF-12", "DCF-1">>, <<"DCF-12">> >>

\* a string field: Missing when the key is absent, Null when it is null, its
\* length otherwise
Null == -2
DescriptionLens == <<Missing, 5, 200, 201>>

\* m.get(key) of monitor number r
MonitorGet(r, key) ==
    CASE key = "checkResultStatus" -> CheckResultStatuses[(r % 4) + 1]
      [] key = "controls" -> IF Nulled(r) THEN NullList
                             ELSE MonitorControls[(r % 5) + 1]
      [] key = "description" -> IF Nulled(r) THEN Null
                                ELSE DescriptionLens[((r \div 4) % 4) + 1]

\* an employment status is the sequence of its parts; NoStatus is None
NoStatus == <<"None">>
EmploymentStatuses == << <<"CURRENT", "_EMPLOYEE">>, <<"FORMER", "_EMPLOYEE">>,
                         NoStatus, <<"CURRENT", "_CONTRACTOR">> >>
\* a device count: absent or null, or a number
DeviceCounts == <<Missing, 0, 2>>

\* the nested user record: the key absent, or a record
Users == <<"Absent", "User">>

PersonnelKinds == Len(EmploymentStatuses) * Len(DeviceCounts)

\* p.get(key) of personnel record number r
PersonnelGet(r, key) ==
    LET k == r % PersonnelKinds
    IN  CASE key = "employmentStatus" -> EmploymentStatuses[(k % 4) + 1]
          [] key = "devicesFailingComplianceCount" -> DeviceCounts[(k \div 4) + 1]
          [] key = "user" -> IF Nulled(r) THEN "Null"
                             ELSE Users[((r \div PersonnelKinds) % 2) + 1]

ConnectionStates == <<"ACTIVE", "DISCONNECTED">>

\* c.get(key) of connection number r
ConnectionGet(r, key) ==
    CASE key = "failedAt" -> Timestamps[((r \div 2) % 2) + 1]
      [] key = "state" -> ConnectionStates[(r % 2) + 1]

AssetTypes == <<"CLOUD", "PHYSICAL", "None">>

\* a.get("assetType") of asset number r
AssetGet(r, key) ==
    CASE key = "assetType" -> AssetTypes[(r % 3) + 1]

Categories == <<"CONTROL", "MONITOR", "None">>

\* e.get("category") of event number r
EventGet(r, key) ==
    CASE key = "category" -> Categories[(r % 3) + 1]

----------------------------------------------------------------------------
(* Python's values *)

\* bool(v)
Truthy(v) == v \notin {"None", "False", ""}

\* (s or ""), for an employment status
OrEmpty(s) == IF s = NoStatus THEN <<>> ELSE s

\* (n or 0), for a count
OrZero(n) == IF n = Missing THEN 0 ELSE n

\* s.startswith(<<prefix>>)
StartsWith(s, prefix) == Len(s) >= 1 /\ s[1] = prefix

\* the string made of the first len characters of text number text
Str(text, len) == IF len = 0 THEN [text |-> 0, len |-> 0]
                  ELSE [text |-> text, len |-> len]

\* a slice that keeps 100 characters
SliceHalf(s, n) == Str(s.text, Min(s.len, n \div 2))

\* s[:n]
Slice(s, n) == Str(s.text, Min(s.len, n))

\* d.get(key, []) and d.get(key, ""): the default only when the key is absent
GetList(v) == IF v = AbsentList THEN <<>> ELSE v
GetStr(r, v) == IF v = Missing THEN Str(r, 0) ELSE IF v = Null THEN Null ELSE Str(r, v)

\* sum(1 for x in seq if ...), hits[i] telling whether seq[i] passes the test
Count(hits) == Cardinality({i \in DOMAIN hits : hits[i]})

----------------------------------------------------------------------------
(* server.py: the derivations of the tool layer *)

\* the order of the tests changed: readiness before archival
GetControlStatusReadyFirst(c) ==
    IF ~Truthy(ControlGet(c, "isReady")) THEN "NOT_READY"
    ELSE IF Truthy(ControlGet(c, "archivedAt")) THEN "ARCHIVED"
    ELSE IF ~Truthy(ControlGet(c, "hasOwner")) THEN "NO_OWNER"
    ELSE IF Truthy(ControlGet(c, "isMonitored")) /\ Truthy(ControlGet(c, "hasEvidence"))
         THEN "PASSING"
    ELSE IF ~Truthy(ControlGet(c, "hasEvidence")) THEN "NEEDS_EVIDENCE"
    ELSE "READY"

_get_control_status(c) ==
    IF Truthy(ControlGet(c, "archivedAt")) THEN "ARCHIVED"
    ELSE IF ~Truthy(ControlGet(c, "isReady")) THEN "NOT_READY"
    ELSE IF ~Truthy(ControlGet(c, "hasOwner")) THEN "NO_OWNER"
    ELSE IF Truthy(ControlGet(c, "isMonitored")) /\ Truthy(ControlGet(c, "hasEvidence"))
         THEN "PASSING"
    ELSE IF ~Truthy(ControlGet(c, "hasEvidence")) THEN "NEEDS_EVIDENCE"
    ELSE "READY"

\* a filter that lets READY controls through
SkippedNotReady(only_issues, status) ==
    only_issues /\ status \in {"PASSING", "ARCHIVED"}

\* list_controls: the test that skips a control
Skipped(only_issues, status) ==
    only_issues /\ status \in {"PASSING", "READY", "ARCHIVED"}

\* a total counted by the tool instead of read from the result
ResultTotalCounted(res, controls) == Len(controls)

\* result.get("total", len(controls))
ResultTotal(res, controls) == GetOr(res.total, Len(controls))

\* list_controls, from the fetched result on
ListControlsResult(res, only_issues) ==
    LET controls == res.data
        with_status == [i \in DOMAIN controls |->
                          [id |-> controls[i],
                           status |-> _get_control_status(controls[i])]]
        Kept(e) == ~Skipped(only_issues, e.status)
        enriched == SelectSeq(with_status, Kept)
        WithStatus(st) == [i \in DOMAIN enriched |-> enriched[i].status = st]
    IN  [total |-> ResultTotal(res, controls),
         showing |-> Len(enriched),
         summary |-> [not_ready |-> Count(WithStatus("NOT_READY")),
                      no_owner |-> Count(WithStatus("NO_OWNER")),
                      needs_evidence |-> Count(WithStatus("NEEDS_EVIDENCE"))],
         controls |-> enriched]

\* a recommendation that looks at the personnel before the connections
GetRecommendationPersonnelFirst(failed_monitors, personnel_issues, failed_connections) ==
    IF failed_monitors > 0
    THEN [line |-> "Priority: Investigate failing monitors", count |-> failed_monitors]
    ELSE IF personnel_issues > 0
    THEN [line |-> "Action needed: personnel device issues", count |-> personnel_issues]
    ELSE IF failed_connections > 0
    THEN [line |-> "Priority: Fix failed connections", count |-> failed_connections]
    ELSE [line |-> "All systems compliant - ready for audit", count |-> Missing]

\* the recommendation: its text, and the count the text carries
_get_recommendation(failed_monitors, personnel_issues, failed_connections) ==
    IF failed_monitors > 0
    THEN [line |-> "Priority: Investigate failing monitors", count |-> failed_monitors]
    ELSE IF failed_connections > 0
    THEN [line |-> "Priority: Fix failed connections", count |-> failed_connections]
    ELSE IF personnel_issues > 0
    THEN [line |-> "Action needed: personnel device issues", count |-> personnel_issues]
    ELSE [line |-> "All systems compliant - ready for audit", count |-> Missing]

MonitorFailed(m) == MonitorGet(m, "checkResultStatus") = "FAILED"
MonitorPassed(m) == MonitorGet(m, "checkResultStatus") = "PASSED"
PersonCurrent(p) ==
    StartsWith(OrEmpty(PersonnelGet(p, "employmentStatus")), "CURRENT")
PersonFailing(p) == OrZero(PersonnelGet(p, "devicesFailingComplianceCount")) > 0
\* a filter that forgets the employment status
PersonWithIssuesAnyStatus(p) == PersonFailing(p)
PersonWithIssues(p) == PersonFailing(p) /\ PersonCurrent(p)
ConnectionActive(c) == ConnectionGet(c, "state") = "ACTIVE"
ConnectionFailed(c) == Truthy(ConnectionGet(c, "failedAt"))

\* the sum without the connections
TotalIssuesNoConnections(failed_monitors, personnel_with_issues, failed_connections) ==
    failed_monitors + personnel_with_issues

\* get_compliance_summary: total_issues
TotalIssues(failed_monitors, personnel_with_issues, failed_connections) ==
    failed_monitors + personnel_with_issues + failed_connections

\* get_compliance_summary, from the four fetched pages on
ComplianceSummaryResult(f) ==
    LET monitors_data == f.monitors_data
        failed_monitors ==
            Count([i \in DOMAIN monitors_data |-> MonitorFailed(monitors_data[i])])
        passed_monitors ==
            Count([i \in DOMAIN monitors_data |-> MonitorPassed(monitors_data[i])])
        personnel_data == f.personnel_data
        current_personnel ==
            Count([i \in DOMAIN personnel_data |-> PersonCurrent(personnel_data[i])])
        personnel_with_issues ==
            Count([i \in DOMAIN personnel_data |-> PersonWithIssues(personnel_data[i])])
        connections_data == f.connections_data
        active_connections ==
            Count([i \in DOMAIN connections_data |-> ConnectionActive(connections_data[i])])
        failed_connections ==
            Count([i \in DOMAIN connections_data |-> ConnectionFailed(connections_data[i])])
        total_issues == TotalIssues(failed_monitors, personnel_with_issues,
                                    failed_connections)
    IN  [status |-> IF total_issues > 0 THEN "NEEDS_ATTENTION" ELSE "COMPLIANT",
         total_issues |-> total_issues,
         summary |->
            [controls |-> [total |-> f.controls_total],
             monitors |-> [total |-> Len(monitors_data),
                           passed |-> passed_monitors,
                           failed |-> failed_monitors],
             personnel |-> [total |-> current_personnel,
                            with_device_issues |-> personnel_with_issues],
             connections |-> [total |-> Len(connections_data),
                              active |-> active_connections,
                              failed |-> failed_connections]],
         recommendation |-> _get_recommendation(failed_monitors,
                                personnel_with_issues, failed_connections)]

\* what a tool leaves behind when an exception escapes its own code
Raised(exception) == [exception |-> exception]

\* any control with a code taken for the match
CodeIsHit(c, control_code) == ControlGet(c, "code") # "None"

\* get_control_details: c.get("code") == control_code
CodeEquals(c, control_code) == ControlGet(c, "code") = control_code

\* get_control_details: the position of the control the loop breaks on, 0
\* when it ends with control = None
ExactMatch(controls, control_code) ==
    LET hits == {i \in DOMAIN controls : CodeEquals(controls[i], control_code)}
    IN  IF hits = {} THEN 0 ELSE CHOOSE i \in hits : \A j \in hits : i <= j

\* for c in m.get("controls", []) raises TypeError on a monitor of the list
NullControls(monitors) ==
    \E i \in DOMAIN monitors : MonitorGet(monitors[i], "controls") = NullList

\* control_code in [c.get("code") for c in m.get("controls", [])]
LinkedTo(m, control_code) ==
    LET control_codes == GetList(MonitorGet(m, "controls"))
    IN  \E i \in DOMAIN control_codes : control_codes[i] = control_code

\* the linked monitors of get_control_details and get_monitors_for_control
LinkedMonitors(monitors, control_code) ==
    LET Linked(m) == LinkedTo(m, control_code)
        linked == SelectSeq(monitors, Linked)
    IN  [i \in DOMAIN linked |->
            [id |-> linked[i],
             status |-> MonitorGet(linked[i], "checkResultStatus")]]

\* get_control_details, from the matched control and the monitors on
ControlDetailsResult(control, monitors, control_code) ==
    [id |-> control,
     code |-> ControlGet(control, "code"),
     status |-> _get_control_status(control),
     linked_monitors |-> LinkedMonitors(monitors, control_code)]

\* get_control_details when no control matches
ControlNotFound(control_code) == [error |-> control_code]

\* get_monitors_for_control, from the fetched result on
MonitorsForControlResult(res, control_code) ==
    LET linked == LinkedMonitors(res.data, control_code)
    IN  [control_code |-> control_code,
         total_monitors |-> Len(linked),
         monitors |-> linked]

\* list_failing_monitors: m.get("description", "")[:200] or the iteration
\* over m.get("controls", []) raises TypeError on a failed monitor
FailingMonitorsRaises(res) ==
    \E i \in DOMAIN res.data :
        /\ MonitorFailed(res.data[i])
        /\ \/ MonitorGet(res.data[i], "description") = Null
           \/ MonitorGet(res.data[i], "controls") = NullList

\* list_failing_monitors, from the fetched result on
FailingMonitorsResult(res) ==
    LET failed == SelectSeq(res.data, MonitorFailed)
    IN  [total_failed |-> Len(failed),
         message |-> IF failed # <<>>
                     THEN [line |-> "tests failing", count |-> Len(failed)]
                     ELSE [line |-> "All tests passing", count |-> 0],
         failing_monitors |->
            [i \in DOMAIN failed |->
                [id |-> failed[i],
                 description |->
                    Slice(GetStr(failed[i], MonitorGet(failed[i], "description")), 200),
                 controls |-> GetList(MonitorGet(failed[i], "controls"))]]]

\* list_personnel_with_issues, from the fetched result on
PersonnelWithIssuesResult(res) ==
    LET with_issues == SelectSeq(res.data, PersonWithIssues)
    IN  [total_with_issues |-> Len(with_issues),
         message |-> IF with_issues # <<>>
                     THEN [line |-> "personnel with device issues",
                           count |-> Len(with_issues)]
                     ELSE [line |-> "All devices compliant", count |-> 0],
         personnel |->
            [i \in DOMAIN with_issues |->
                [id |-> with_issues[i],
                 email |-> IF PersonnelGet(with_issues[i], "user") = "User"
                           THEN "email" ELSE "None",
                 employmentStatus |-> PersonnelGet(with_issues[i], "employmentStatus"),
                 devicesFailingCount |->
                    OrZero(PersonnelGet(with_issues[i], "devicesFailingComplianceCount"))]]]

\* get_personnel_details: person.get("user", {}).get("email") raises
\* AttributeError
PersonnelDetailsRaises(person) == PersonnelGet(person, "user") = "Null"

\* get_personnel_details, from the fetched record on
PersonnelDetailsResult(person) ==
    [id |-> person,
     email |-> IF PersonnelGet(person, "user") = "User" THEN "email" ELSE "None",
     employmentStatus |-> PersonnelGet(person, "employmentStatus"),
     devicesFailingCount |->
        GetOr(PersonnelGet(person, "devicesFailingComplianceCount"), 0)]

----------------------------------------------------------------------------
(* The state after DrataClient.__init__, and after server.py is loaded *)

Upstreams ==
    {[consistent |-> TRUE, T |-> t, base |-> 0] : t \in 0..MaxRecords}
    \cup {[consistent |-> FALSE, T |-> 0, base |-> 0]}

\* the locals of a call that has not started
NoFrame == [pc |-> "idle", op |-> "none", params |-> NoParams, all_data |-> <<>>,
            total |-> 0, exchanges |-> <<>>, result |-> NoResult, session |-> None]

Tasks == 1..MaxTasks

ClientInit ==
    /\ tasks = [t \in Tasks |-> NoFrame]
    /\ self_client = None
    /\ sessions = <<>>
    /\ pc = "idle"
    /\ op = "none"
    /\ params = NoParams
    /\ all_data = <<>>
    /\ total = 0
    /\ exchanges = <<>>
    /\ result = NoResult

NoArgs == [only_issues |-> FALSE]
\* requests: the requests the tool's client calls have sent so far
NoFetched == [result |-> NoResult, controls_total |-> 0, monitors_data |-> <<>>,
              personnel_data |-> <<>>, connections_data |-> <<>>,
              requests |-> <<>>]
NoToolResult == [status |-> "none"]

ToolInit ==
    /\ _client = "None"
    /\ tool = "none"
    /\ tool_args = NoArgs
    /\ tool_pc = "idle"
    /\ fetched = NoFetched
    /\ tool_result = NoToolResult

\* a client built by its user, with a key
Init ==
    /\ upstream \in Upstreams
    /\ api_key = TRUE
    /\ ClientInit
    /\ ToolInit

----------------------------------------------------------------------------
(* The operations of the client *)

Ready == pc \in {"idle", "returned", "raised", "not_found"}

\* the model creates at most MaxSessions sessions
SessionsLeft ==
    NeedsNewSession(self_client, sessions) => Len(sessions) < MaxSessions

\* the query parameters list_controls(page, limit) and the other single-page
\* operations build
SinglePageParams(o, page, limit) ==
    [page |-> page,
     limit |-> LimitParam(o, IF limit = 0 THEN DefaultLimit(o) ELSE limit)]

\* a single-page operation, up to its request
StartSinglePage(o, page, limit) ==
    /\ op' = o
    /\ params' = SinglePageParams(o, page, limit)
    /\ pc' = "request"
    /\ exchanges' = <<>>
    /\ result' = NoResult
    /\ all_data' = <<>>
    /\ total' = 0
    /\ UNCHANGED <<self_client, sessions>>

\* list_all_controls() and the like, up to the loop of _paginate_all
StartPaginateAll(o) ==
    /\ op' = o
    /\ params' = [page |-> 1, limit |-> MAX_PAGE_SIZE]
    /\ all_data' = <<>>
    /\ total' = 0
    /\ pc' = "paging"
    /\ exchanges' = <<>>
    /\ result' = NoResult
    /\ UNCHANGED <<self_client, sessions>>

\* _request, for a single-page operation: the session is fetched or built,
\* the request sent, and the answer returned or raised
SinglePageRequest ==
    /\ pc = "request"
    /\ \E resp \in Responses(params) :
        LET s == GetClientSessions(self_client, sessions)
            sid == GetClient(self_client, sessions)
            sent == ~s[sid].is_closed
            ok == sent /\ ~RaiseForStatus(resp)
        IN  /\ sessions' = s
            /\ self_client' = sid
            /\ exchanges' = Append(exchanges,
                   Exchange(op, params, sid, s, resp, 0, 0))
            /\ pc' = IF ok THEN "returned" ELSE "raised"
            /\ result' = IF ok THEN [data |-> resp.data, total |-> resp.total]
                         ELSE NoResult
    /\ UNCHANGED <<upstream, op, params, all_data, total, toolvars, tasks>>

\* the answers the model lets the upstream give to the next page request:
\* past MaxPages an inconsistent upstream stops asking for more
PagingResponses ==
    {r \in Responses(params) :
        \/ upstream.consistent
        \/ params.page < MaxPages
        \/ r.status # 200
        \/ StopsLoop(r.data, Extend(all_data, r.data), GetOr(r.total, total))}

\* one iteration of the loop of _paginate_all, the upstream answering resp
PageStep(resp) ==
    /\ pc = "paging"
    /\  LET s == GetClientSessions(self_client, sessions)
            sid == GetClient(self_client, sessions)
            sent == ~s[sid].is_closed
            ok == sent /\ ~RaiseForStatus(resp)
            data == resp.data
            tot == GetOr(resp.total, total)
            acc == Extend(all_data, data)
        IN  /\ sessions' = s
            /\ self_client' = sid
            /\ exchanges' = Append(exchanges,
                   Exchange(op, params, sid, s, resp,
                            IF ok THEN Len(acc) ELSE Len(all_data),
                            IF ok THEN tot ELSE total))
            /\ IF ~ok
               THEN /\ pc' = "raised"
                    /\ result' = NoResult
                    /\ all_data' = <<>>
                    /\ total' = 0
                    /\ params' = params
               ELSE IF StopsLoop(data, acc, tot)
               THEN /\ pc' = "returned"
                    /\ result' = [data |-> acc, total |-> tot]
                    /\ all_data' = <<>>
                    /\ total' = 0
                    /\ params' = params
               ELSE /\ pc' = "paging"
                    /\ result' = NoResult
                    /\ all_data' = acc
                    /\ total' = tot
                    /\ params' = NextPage(params)
    /\ UNCHANGED <<upstream, op, toolvars, tasks>>

\* one iteration of the loop, the upstream answering as PagingResponses says
PageRequest == \E resp \in PagingResponses : PageStep(resp)

----------------------------------------------------------------------------
(* get_personnel_by_email.  An email is the number of the record that      *)
(* carries it.                                                             *)

Emails == {0, MAX_PAGE_SIZE}

\* what the upstream answers to the query for an email: a consistent one the
\* record with that email if it holds it, any other one anything, with or
\* without a data key
LookupResponses(email) ==
    IF upstream.consistent
    THEN {[status |-> 200, has_data |-> TRUE,
           data |-> IF email \in upstream.base..(upstream.base + upstream.T - 1)
                    THEN <<email>> ELSE <<>>]}
    ELSE {[status |-> st, has_data |-> TRUE, data |-> Run(email, n)] :
              st \in {200, 500}, n \in 0..2}
         \cup {[status |-> st, has_data |-> FALSE, data |-> <<>>] : st \in {200, 500}}

\* the answer with the last record for the first
LastOf(data) == data[Len(data)]

\* result["data"][0]
FirstOf(data) == data[1]

\* if result.get("data")
HasData(resp) == resp.has_data /\ resp.data # <<>>

\* the entry of exchanges for the query
LookupExchange(path, p, sid, s, resp) ==
    [path |-> path, method |-> Method(path), page |-> p.page, limit |-> p.limit,
     session |-> sid, session_open |-> ~s[sid].is_closed,
     status |-> resp.status, has_data |-> resp.has_data,
     n |-> Len(resp.data),
     first |-> IF resp.data = <<>> THEN Missing ELSE resp.data[1]]

\* get_personnel_by_email(email), up to its request
StartLookup(email) ==
    /\ op' = "get_personnel_by_email"
    /\ params' = [page |-> 0, limit |-> 0, email |-> email]
    /\ pc' = "lookup"
    /\ exchanges' = <<>>
    /\ result' = NoResult
    /\ all_data' = <<>>
    /\ total' = 0
    /\ UNCHANGED <<self_client, sessions>>

\* the request of get_personnel_by_email and what follows it: the first
\* record is returned, or ValueError raised
LookupRequest ==
    /\ pc = "lookup"
    /\ \E resp \in LookupResponses(params.email) :
        LET s == GetClientSessions(self_client, sessions)
            sid == GetClient(self_client, sessions)
            sent == ~s[sid].is_closed
            ok == sent /\ ~RaiseForStatus(resp)
        IN  /\ sessions' = s
            /\ self_client' = sid
            /\ exchanges' = Append(exchanges, LookupExchange(op, params, sid, s, resp))
            /\ pc' = IF ~ok THEN "raised"
                     ELSE IF HasData(resp) THEN "returned" ELSE "not_found"
            /\ result' = IF ok /\ HasData(resp) THEN FirstOf(resp.data) ELSE NoResult
    /\ UNCHANGED <<upstream, op, params, all_data, total, toolvars, tasks>>

----------------------------------------------------------------------------
(* get_control(id) and the other operations that fetch one record by its   *)
(* id, the id of a record being its number.                                *)

RecordOps == {"get_control", "get_control_evidence", "get_monitor",
              "get_personnel", "get_policy", "get_vendor"}

\* the body of an answer that is an error: a document that is no record
ErrorBody == <<Missing>>

\* what the upstream answers to the request for record id: a consistent one
\* the record if it holds it and 404 if not, any other one anything
RecordResponses(id) ==
    IF upstream.consistent
    THEN {IF id \in upstream.base..(upstream.base + upstream.T - 1)
          THEN [status |-> 200, data |-> <<id>>]
          ELSE [status |-> 404, data |-> ErrorBody]}
    ELSE {[status |-> 200, data |-> <<id>>],
          [status |-> 404, data |-> ErrorBody], [status |-> 500, data |-> ErrorBody]}

\* get_control(id) and the like, up to the request
StartGetRecord(o, id) ==
    /\ op' = o
    /\ params' = [page |-> 0, limit |-> 0, id |-> id]
    /\ pc' = "get"
    /\ exchanges' = <<>>
    /\ result' = NoResult
    /\ all_data' = <<>>
    /\ total' = 0
    /\ UNCHANGED <<self_client, sessions>>

\* _request, for an operation that fetches one record: the record is the
\* whole answer
RecordRequest ==
    /\ pc = "get"
    /\ \E resp \in RecordResponses(params.id) :
        LET s == GetClientSessions(self_client, sessions)
            sid == GetClient(self_client, sessions)
            sent == ~s[sid].is_closed
            ok == sent /\ ~RaiseForStatus(resp)
        IN  /\ sessions' = s
            /\ self_client' = sid
            /\ exchanges' = Append(exchanges,
                   Exchange(op, params, sid, s, resp, 0, 0))
            /\ pc' = IF ok THEN "returned" ELSE "raised"
            /\ result' = IF ok THEN FirstOf(resp.data) ELSE NoResult
    /\ UNCHANGED <<upstream, op, params, all_data, total, toolvars, tasks>>

----------------------------------------------------------------------------
(* Calls of the client's operations by its user, one at a time *)

RecordIds == {0, MAX_PAGE_SIZE}

\* server.py's list_users, which calls _request itself: up to the request
StartListUsers ==
    /\ op' = "list_users"
    /\ params' = [page |-> 0, limit |-> 50]
    /\ pc' = "request"
    /\ exchanges' = <<>>
    /\ result' = NoResult
    /\ all_data' = <<>>
    /\ total' = 0
    /\ UNCHANGED <<self_client, sessions>>

CallListUsers ==
    /\ Ready
    /\ SessionsLeft
    /\ StartListUsers
    /\ UNCHANGED <<upstream, toolvars, tasks>>

CallGetRecord(o, id) ==
    /\ Ready
    /\ SessionsLeft
    /\ StartGetRecord(o, id)
    /\ UNCHANGED <<upstream, toolvars, tasks>>

CallGetPersonnelByEmail(email) ==
    /\ Ready
    /\ SessionsLeft
    /\ StartLookup(email)
    /\ UNCHANGED <<upstream, toolvars, tasks>>

CallSinglePage(o, page, limit) ==
    /\ Ready
    /\ SessionsLeft
    /\ StartSinglePage(o, page, limit)
    /\ UNCHANGED <<upstream, toolvars, tasks>>

CallPaginateAll(o) ==
    /\ Ready
    /\ SessionsLeft
    /\ StartPaginateAll(o)
    /\ UNCHANGED <<upstream, toolvars, tasks>>

\* close()
Close ==
    /\ Ready
    /\ op' = "close"
    /\ sessions' = CloseSessions(self_client, sessions)
    /\ pc' = "returned"
    /\ params' = NoParams
    /\ exchanges' = <<>>
    /\ result' = NoResult
    /\ all_data' = <<>>
    /\ total' = 0
    /\ UNCHANGED <<upstream, self_client, toolvars, tasks>>

Next ==
    \/ \E o \in SinglePageOps, page \in PageArgs, limit \in LimitArgs :
           CallSinglePage(o, page, limit)
    \/ SinglePageRequest
    \/ \E o \in PaginateOps : CallPaginateAll(o)
    \/ PageRequest
    \/ \E email \in Emails : CallGetPersonnelByEmail(email)
    \/ LookupRequest
    \/ \E o \in RecordOps, id \in RecordIds : CallGetRecord(o, id)
    \/ RecordRequest
    \/ CallListUsers
    \/ Close

Spec == Init /\ [][Next]_vars

----------------------------------------------------------------------------
(* The tools, invoked by the host one at a time *)

\* the server with or without a key in its environment
ServerInit ==
    /\ upstream \in Upstreams
    /\ api_key \in BOOLEAN
    /\ ClientInit
    /\ ToolInit

ToolReady == Ready /\ tool_pc \in {"idle", "returned", "raised"}

\* get_client() raises
GetClientRaises == _client = "None" /\ ~api_key

\* the upstream's records at the time of an invocation: the first one is
\* record number b
ControlBases == {i * (MAX_PAGE_SIZE + 1) : i \in 0..(ControlKinds \div MAX_PAGE_SIZE)}
SummaryBases == 0..(PersonnelKinds - 1)

\* list_controls(only_issues), and list_controls_with_issues(), which calls
\* list_controls(only_issues=True): up to the fetch
InvokeListControls(t, only_issues, b) ==
    /\ ToolReady
    /\ tool' = t
    /\ tool_args' = [only_issues |-> only_issues]
    /\ fetched' = NoFetched
    /\ tool_result' = NoToolResult
    /\ IF GetClientRaises
       THEN /\ tool_pc' = "raised"
            /\ UNCHANGED <<upstream, clientvars, _client>>
       ELSE /\ _client' = "DrataClient"
            /\ tool_pc' = "list_all_controls"
            /\ upstream' = [upstream EXCEPT !.base = b]
            /\ StartPaginateAll("list_all_controls")
    /\ UNCHANGED <<api_key, tasks>>

\* list_controls, once the fetch has ended
ListControlsReturn ==
    /\ tool \in {"list_controls", "list_controls_with_issues"}
    /\ tool_pc = "list_all_controls"
    /\ pc \in {"returned", "raised"}
    /\ IF pc = "raised"
       THEN /\ tool_pc' = "raised"
            /\ UNCHANGED <<pc, result, fetched, tool_result>>
       ELSE /\ tool_pc' = "returned"
            /\ fetched' = [fetched EXCEPT !.result = result]
            /\ tool_result' = ListControlsResult(result, tool_args.only_issues)
            /\ pc' = "idle"
            /\ result' = NoResult
    /\ UNCHANGED <<upstream, self_client, sessions, op, params, all_data, total,
                   exchanges, api_key, tasks, _client, tool, tool_args>>

\* get_compliance_summary(), up to its first request
InvokeComplianceSummary(b) ==
    /\ ToolReady
    /\ tool' = "get_compliance_summary"
    /\ tool_args' = NoArgs
    /\ fetched' = NoFetched
    /\ tool_result' = NoToolResult
    /\ IF GetClientRaises
       THEN /\ tool_pc' = "raised"
            /\ UNCHANGED <<upstream, clientvars, _client>>
       ELSE /\ _client' = "DrataClient"
            /\ tool_pc' = "list_controls"
            /\ upstream' = [upstream EXCEPT !.base = b]
            /\ StartSinglePage("list_controls", 1, 50)
    /\ UNCHANGED <<api_key, tasks>>

\* a summary that leaves the connections out
NextCallSkipsConnections(call) ==
    CASE call = "list_controls" -> "list_monitors"
      [] call = "list_monitors" -> "list_personnel"
      [] call = "list_personnel" -> "returned"
      [] call = "list_connections" -> "returned"

\* the four calls of get_compliance_summary, in their order
NextCall(call) ==
    CASE call = "list_controls" -> "list_monitors"
      [] call = "list_monitors" -> "list_personnel"
      [] call = "list_personnel" -> "list_connections"
      [] call = "list_connections" -> "returned"

\* what get_compliance_summary keeps of the page a call returned
Keep(call, res, f) ==
    CASE call = "list_controls" -> [f EXCEPT !.controls_total = GetOr(res.total, 0)]
      [] call = "list_monitors" -> [f EXCEPT !.monitors_data = res.data]
      [] call = "list_personnel" -> [f EXCEPT !.personnel_data = res.data]
      [] call = "list_connections" -> [f EXCEPT !.connections_data = res.data]

\* the tool's request log, once the client has sent the request for operation
\* o with parameters p
Sent(f, o, p) ==
    [f EXCEPT !.requests = Append(@, [op |-> o, method |-> Method(o),
                                      page |-> p.page, limit |-> p.limit])]

\* get_compliance_summary from the answer to one of its requests to its next
\* request, or to the summary after the last one
ComplianceSummaryStep ==
    /\ tool = "get_compliance_summary"
    /\ tool_pc \in {"list_controls", "list_monitors", "list_personnel",
                    "list_connections"}
    /\ pc = "request"
    /\ \E resp \in Responses(params) :
        LET s == GetClientSessions(self_client, sessions)
            sid == GetClient(self_client, sessions)
            sent == ~s[sid].is_closed
            ok == sent /\ ~RaiseForStatus(resp)
            res == [data |-> resp.data, total |-> resp.total]
            sent_now == Append(exchanges,
                Exchange(op, params, sid, s, resp, 0, 0))
        IN  /\ sessions' = s
            /\ self_client' = sid
            /\ IF ~ok
               THEN /\ pc' = "raised"
                    /\ result' = NoResult
                    /\ exchanges' = sent_now
                    /\ tool_pc' = "raised"
                    /\ fetched' = Sent(fetched, op, params)
                    /\ UNCHANGED <<op, params, tool_result>>
               ELSE /\ fetched' = Keep(tool_pc, res, Sent(fetched, op, params))
                    /\ tool_pc' = NextCall(tool_pc)
                    /\ IF NextCall(tool_pc) = "returned"
                       THEN /\ tool_result' = ComplianceSummaryResult(fetched')
                            /\ pc' = "idle"
                            /\ result' = NoResult
                            /\ exchanges' = sent_now
                            /\ UNCHANGED <<op, params>>
                       ELSE /\ tool_result' = NoToolResult
                            /\ op' = NextCall(tool_pc)
                            /\ params' = SinglePageParams(NextCall(tool_pc), 1, 50)
                            /\ pc' = "request"
                            /\ result' = NoResult
                            /\ exchanges' = <<>>
    /\ UNCHANGED <<upstream, all_data, total, api_key, tasks, _client, tool, tool_args>>

\* a get_client that stores a client it could not build
GetClientStoresAnyway(c, key) == "DrataClient"

\* get_client(): the global after the call; the client is built when there is
\* none and the key is set, and kept otherwise
get_client(c, key) == IF c = "None" /\ key THEN "DrataClient" ELSE c

\* a tool from its invocation to its first client call, Start; it ends at
\* once when get_client() raises
Invoke(t, args, call, b, Start) ==
    /\ ToolReady
    /\ tool' = t
    /\ tool_args' = args
    /\ fetched' = NoFetched
    /\ tool_result' = NoToolResult
    /\ _client' = get_client(_client, api_key)
    /\ IF GetClientRaises
       THEN /\ tool_pc' = "raised"
            /\ UNCHANGED <<upstream, clientvars>>
       ELSE /\ tool_pc' = call
            /\ upstream' = [upstream EXCEPT !.base = b]
            /\ Start
    /\ UNCHANGED <<api_key, tasks>>

\* the upstream's records at the time of an invocation start at record 0, or
\* at the first record with null fields
DetailBases == {0, NullFrom}
SearchedCodes == {"DCF-1", "DCF-12", "DCF-999"}

\* get_control_details(control_code), up to the search
InvokeControlDetails(control_code, b) ==
    Invoke("get_control_details", [control_code |-> control_code],
           "list_controls", b, StartSinglePage("list_controls", 1, 50))

\* get_control_details, from the answer to the search to the request for the
\* monitors, and from the monitors to the end
ControlDetailsContinue ==
    /\ tool = "get_control_details"
    /\ tool_pc \in {"list_controls", "list_monitors"}
    /\ pc \in {"returned", "raised"}
    /\ IF pc = "raised"
       THEN /\ tool_pc' = "raised"
            /\ UNCHANGED <<clientvars, fetched, tool_result>>
       ELSE IF tool_pc = "list_controls"
       THEN LET controls == result.data
                found == ExactMatch(controls, tool_args.control_code)
            IN  /\ fetched' = [fetched EXCEPT
                                  !.result = [data |-> controls, total |-> Missing]]
                /\ IF found = 0
                   THEN /\ tool_pc' = "returned"
                        /\ tool_result' = ControlNotFound(tool_args.control_code)
                        /\ pc' = "idle"
                        /\ result' = NoResult
                        /\ UNCHANGED <<self_client, sessions, op, params,
                                       all_data, total, exchanges>>
                   ELSE /\ tool_pc' = "list_monitors"
                        /\ tool_result' = NoToolResult
                        /\ StartSinglePage("list_monitors", 1, 50)
       ELSE LET controls == fetched.result.data
                control == controls[ExactMatch(controls, tool_args.control_code)]
                monitors == result.data
            IN  /\ fetched' = [fetched EXCEPT !.monitors_data = monitors]
                /\ pc' = "idle"
                /\ result' = NoResult
                /\ UNCHANGED <<self_client, sessions, op, params,
                               all_data, total, exchanges>>
                /\ IF NullControls(monitors)
                   THEN /\ tool_pc' = "raised"
                        /\ tool_result' = Raised("TypeError")
                   ELSE /\ tool_pc' = "returned"
                        /\ tool_result' = ControlDetailsResult(control, monitors,
                                               tool_args.control_code)
    /\ UNCHANGED <<upstream, api_key, tasks, _client, tool, tool_args>>

\* the tools that fetch a whole collection and derive their result from it
FullFetchTools == {"get_monitors_for_control", "list_failing_monitors",
                   "list_personnel_with_issues"}

\* the client operation of such a tool
FetchOf(t) == IF t = "list_personnel_with_issues" THEN "list_all_personnel"
              ELSE "list_all_monitors"

\* get_monitors_for_control(control_code), list_failing_monitors() and
\* list_personnel_with_issues(), up to the fetch
InvokeFullFetch(t, args, b) ==
    Invoke(t, args, FetchOf(t), b, StartPaginateAll(FetchOf(t)))

\* the exception the tool's own code raises on the fetched result, if any
FullFetchRaises(t, res) ==
    CASE t = "get_monitors_for_control" -> NullControls(res.data)
      [] t = "list_failing_monitors" -> FailingMonitorsRaises(res)
      [] t = "list_personnel_with_issues" -> FALSE

FullFetchResult(t, res, args) ==
    CASE t = "get_monitors_for_control" ->
             MonitorsForControlResult(res, args.control_code)
      [] t = "list_failing_monitors" -> FailingMonitorsResult(res)
      [] t = "list_personnel_with_issues" -> PersonnelWithIssuesResult(res)

\* such a tool, once the fetch has ended
FullFetchReturn ==
    /\ tool \in FullFetchTools
    /\ tool_pc = FetchOf(tool)
    /\ pc \in {"returned", "raised"}
    /\ IF pc = "raised"
       THEN /\ tool_pc' = "raised"
            /\ UNCHANGED <<pc, result, fetched, tool_result>>
       ELSE /\ fetched' = [fetched EXCEPT !.result = result]
            /\ pc' = "idle"
            /\ result' = NoResult
            /\ IF FullFetchRaises(tool, result)
               THEN /\ tool_pc' = "raised"
                    /\ tool_result' = Raised("TypeError")
               ELSE /\ tool_pc' = "returned"
                    /\ tool_result' = FullFetchResult(tool, result, tool_args)
    /\ UNCHANGED <<upstream, self_client, sessions, op, params, all_data, total,
                   exchanges, api_key, tasks, _client, tool, tool_args>>

\* get_personnel_details(personnel_id), up to the request
InvokePersonnelDetails(personnel_id, b) ==
    Invoke("get_personnel_details", [personnel_id |-> personnel_id],
           "get_personnel", b, StartGetRecord("get_personnel", personnel_id))

\* get_personnel_details, once the request has ended
PersonnelDetailsReturn ==
    /\ tool = "get_personnel_details"
    /\ tool_pc = "get_personnel"
    /\ pc \in {"returned", "raised"}
    /\ IF pc = "raised"
       THEN /\ tool_pc' = "raised"
            /\ UNCHANGED <<pc, result, fetched, tool_result>>
       ELSE /\ fetched' = [fetched EXCEPT !.personnel_data = <<result>>]
            /\ pc' = "idle"
            /\ result' = NoResult
            /\ IF PersonnelDetailsRaises(result)
               THEN /\ tool_pc' = "raised"
                    /\ tool_result' = Raised("AttributeError")
               ELSE /\ tool_pc' = "returned"
                    /\ tool_result' = PersonnelDetailsResult(result)
    /\ UNCHANGED <<upstream, self_client, sessions, op, params, all_data, total,
                   exchanges, api_key, tasks, _client, tool, tool_args>>

----------------------------------------------------------------------------
(* The tools that return one page of a collection *)

\* the tools whose limit argument is documented as "Max results"
LimitTools == {"list_policies", "list_pending_policy_acknowledgments",
               "list_connections", "list_vendors", "list_devices"}

\* the client operation of such a tool
PageOpOf(t) == IF t = "list_pending_policy_acknowledgments" THEN "list_user_policies"
               ELSE t

\* the limits the host passes to such a tool
ToolLimits == {1, 2, MAX_PAGE_SIZE, 2 * MAX_PAGE_SIZE}

\* the limit such a tool passes to the client: the literal 50, whatever the
\* host passed
PassedLimit(limit) == 50

\* list_policies(limit) and the like, up to the request
InvokeLimitTool(t, limit, b) ==
    Invoke(t, [limit |-> limit], PageOpOf(t), b,
           StartSinglePage(PageOpOf(t), 1, PassedLimit(limit)))

\* what such a tool returns: the total, and one entry per record of the page
LimitToolResult(res) ==
    [total |-> GetOr(res.total, Len(res.data)), records |-> res.data]

\* such a tool, once the request has ended
LimitToolReturn ==
    /\ tool \in LimitTools
    /\ tool_pc = PageOpOf(tool)
    /\ pc \in {"returned", "raised"}
    /\ IF pc = "raised"
       THEN /\ tool_pc' = "raised"
            /\ UNCHANGED <<pc, result, fetched, tool_result>>
       ELSE /\ tool_pc' = "returned"
            /\ fetched' = [fetched EXCEPT !.result = result]
            /\ tool_result' = LimitToolResult(result)
            /\ pc' = "idle"
            /\ result' = NoResult
    /\ UNCHANGED <<upstream, self_client, sessions, op, params, all_data, total,
                   exchanges, api_key, tasks, _client, tool, tool_args>>

----------------------------------------------------------------------------
(* list_assets and list_events: one page, filtered by the tool *)

FilterTools == {"list_assets", "list_events"}

\* the asset types and categories the host passes; "None" stands for leaving
\* the argument out
AssetTypeArgs == {"None", "", "CLOUD"}
CategoryArgs == {"None", "CONTROL"}

\* the limit list_events passes to the client, and the 50 of list_assets
FilterToolLimit(t, args) ==
    IF t = "list_events" THEN Min(args.limit, 50) ELSE 50

\* the filter argument of the tool, and the field it is compared with
FilterOf(t, args) == IF t = "list_events" THEN args.category ELSE args.asset_type
FieldOf(t, r) == IF t = "list_events" THEN EventGet(r, "category")
                 ELSE AssetGet(r, "assetType")

\* a comparison that lets the records without the field through
FieldEqualsOrAbsent(field, filter) == field = filter \/ field = "None"

\* a.get("assetType") == asset_type, e.get("category") == category
FieldEquals(field, filter) == field = filter

\* the records the tool keeps of the page
Filtered(t, data, args) ==
    LET Kept(r) == FieldEquals(FieldOf(t, r), FilterOf(t, args))
    IN  IF Truthy(FilterOf(t, args)) THEN SelectSeq(data, Kept) ELSE data

\* list_assets(asset_type) and list_events(limit, category), up to the request
InvokeFilterTool(t, args, b) ==
    Invoke(t, args, t, b, StartSinglePage(t, 1, FilterToolLimit(t, args)))

\* what the tool returns: the count of the records kept, and one entry per
\* record kept
FilterToolResult(t, res, args) ==
    LET kept == Filtered(t, res.data, args)
    IN  IF t = "list_events"
        THEN [total_events |-> Len(kept), events |-> kept]
        ELSE [total |-> Len(kept), assets |-> kept]

\* list_assets and list_events, once the request has ended
FilterToolReturn ==
    /\ tool \in FilterTools
    /\ tool_pc = tool
    /\ pc \in {"returned", "raised"}
    /\ IF pc = "raised"
       THEN /\ tool_pc' = "raised"
            /\ UNCHANGED <<pc, result, fetched, tool_result>>
       ELSE /\ tool_pc' = "returned"
            /\ fetched' = [fetched EXCEPT !.result = result]
            /\ tool_result' = FilterToolResult(tool, result, tool_args)
            /\ pc' = "idle"
            /\ result' = NoResult
    /\ UNCHANGED <<upstream, self_client, sessions, op, params, all_data, total,
                   exchanges, api_key, tasks, _client, tool, tool_args>>

\* the tools whose requests are those of SinglePageRequest
SinglePageTools == {"get_control_details"} \cup LimitTools \cup FilterTools

ToolNext ==
    \/ \E only_issues \in BOOLEAN, b \in ControlBases :
           InvokeListControls("list_controls", only_issues, b)
    \/ \E b \in ControlBases :
           InvokeListControls("list_controls_with_issues", TRUE, b)
    \/ ListControlsReturn
    \/ \E b \in SummaryBases : InvokeComplianceSummary(b)
    \/ ComplianceSummaryStep
    \/ \E control_code \in SearchedCodes, b \in DetailBases :
           InvokeControlDetails(control_code, b)
    \/ tool \in SinglePageTools /\ SinglePageRequest
    \/ ControlDetailsContinue
    \/ \E control_code \in SearchedCodes, b \in DetailBases :
           InvokeFullFetch("get_monitors_for_control",
                           [control_code |-> control_code], b)
    \/ \E b \in DetailBases \cup {1} :
           InvokeFullFetch("list_failing_monitors", NoArgs, b)
    \/ \E b \in DetailBases : InvokeFullFetch("list_personnel_with_issues", NoArgs, b)
    \/ FullFetchReturn
    \/ \E b \in DetailBases, k \in {0, PersonnelKinds} :
           InvokePersonnelDetails(b + k, b)
    \/ RecordRequest
    \/ PageRequest
    \/ \E t \in LimitTools, limit \in ToolLimits : InvokeLimitTool(t, limit, 0)
    \/ LimitToolReturn
    \/ \E asset_type \in AssetTypeArgs :
           InvokeFilterTool("list_assets", [asset_type |-> asset_type], 0)
    \/ \E limit \in ToolLimits, category \in CategoryArgs :
           InvokeFilterTool("list_events", [limit |-> limit, category |-> category], 0)
    \/ FilterToolReturn

ToolSpec == ServerInit /\ [][ToolNext]_vars

----------------------------------------------------------------------------
(* _get_control_status, applied to every control *)

GetControlStatusCall(c) ==
    /\ tool' = "_get_control_status"
    /\ tool_args' = [c |-> c]
    /\ tool_pc' = "returned"
    /\ tool_result' = [status |-> _get_control_status(c)]
    /\ UNCHANGED <<upstream, clientvars, api_key, tasks, _client, fetched>>

BASE_URL == "https://public-api.drata.com"

\* a base_url that does not know apac
BaseUrlWithoutApac(region) ==
    IF region = "eu" THEN "https://public-api.eu.drata.com" ELSE BASE_URL

\* DrataClient.base_url, for the region the client holds
base_url(region) ==
    IF region = "eu" THEN "https://public-api.eu.drata.com"
    ELSE IF region = "apac" THEN "https://public-api.apac.drata.com"
    ELSE BASE_URL

\* the region arguments of DrataClient(api_key, region); "omitted" stands for
\* leaving the argument out
RegionArgs == {"omitted", "us", "eu", "apac", "EU", "uk", ""}

\* __init__: self.region
InitRegion(arg) == IF arg = "omitted" THEN "us" ELSE arg

\* DrataClient(api_key, region), then base_url as the caller reads it and as
\* _get_client reads it when it builds the session
BaseUrlCall(arg) ==
    /\ tool' = "DrataClient"
    /\ tool_args' = [arg |-> arg, region |-> InitRegion(arg)]
    /\ tool_pc' = "returned"
    /\ tool_result' = [base_url |-> base_url(InitRegion(arg)),
                       session_base_url |-> base_url(InitRegion(arg))]
    /\ UNCHANGED <<upstream, clientvars, api_key, tasks, _client, fetched>>

StatusNext ==
    \/ \E c \in 0..(ControlKinds - 1) : GetControlStatusCall(c)
    \/ \E arg \in RegionArgs : BaseUrlCall(arg)

StatusInit ==
    /\ upstream = [consistent |-> TRUE, T |-> 0, base |-> 0]
    /\ api_key = TRUE
    /\ ClientInit
    /\ ToolInit

StatusSpec == StatusInit /\ [][StatusNext]_vars

----------------------------------------------------------------------------
(* _paginate_all against an upstream that always has more: every answer is  *)
(* a full page, with a total one above the number of records the fetch      *)
(* holds once the page is added.  The fetch is followed for MaxGreedyPages  *)
(* pages.                                                                  *)

GreedyResponses ==
    {[status |-> 200,
      data |-> Run(upstream.base + (params.page - 1) * MAX_PAGE_SIZE, MAX_PAGE_SIZE),
      total |-> Len(all_data) + MAX_PAGE_SIZE + 1]}

GreedyPageRequest ==
    /\ params.page <= MaxGreedyPages
    /\ \E resp \in GreedyResponses : PageStep(resp)

GreedyInit ==
    /\ upstream = [consistent |-> FALSE, T |-> 0, base |-> 0]
    /\ api_key = TRUE
    /\ ClientInit
    /\ ToolInit

GreedyNext ==
    \/ \E o \in PaginateOps : CallPaginateAll(o)
    \/ GreedyPageRequest

GreedySpec == GreedyInit /\ [][GreedyNext]_vars

----------------------------------------------------------------------------
(* _paginate_all against an upstream that answers every request            *)
(* successfully and never reports a total above MaxTotal.  It serves the    *)
(* page asked for or, the page parameter ignored, the first page again; the *)
(* page has any length, and the total may be left out.  A fetch is followed *)
(* for one request more than a total of MaxTotal accounts for.              *)

BoundedTotals == {Missing, 0, 1, MAX_PAGE_SIZE, MaxTotal - 1, MaxTotal}
BoundedLens == {0, 1, MAX_PAGE_SIZE, MAX_PAGE_SIZE + 1}

BoundedResponses ==
    {[status |-> 200, data |-> Run(upstream.base + first, n), total |-> t] :
        first \in {0, (params.page - 1) * MAX_PAGE_SIZE},
        n \in BoundedLens, t \in BoundedTotals}

BoundedPageRequest ==
    /\ Len(exchanges) <= MaxTotal \div MAX_PAGE_SIZE + 1
    /\ \E resp \in BoundedResponses : PageStep(resp)

BoundedInit ==
    /\ upstream = [consistent |-> FALSE, T |-> 0, base |-> 0]
    /\ api_key = TRUE
    /\ ClientInit
    /\ ToolInit

BoundedNext ==
    \/ \E o \in PaginateOps : CallPaginateAll(o)
    \/ BoundedPageRequest

\* the upstream answers every request and the event loop resumes the fetch
\* that awaits the answer: a pending page request is always completed
BoundedSpec ==
    BoundedInit /\ [][BoundedNext]_vars /\ WF_vars(BoundedPageRequest)

----------------------------------------------------------------------------
(* Calls that run concurrently on one client, as asyncio tasks.  A task     *)
(* runs alone from one suspension to the next, and it is suspended only     *)
(* while a request is on the network or a session is being shut down:       *)
(* _get_client() awaits nothing, and httpx tests the session's state before *)
(* it awaits the network, so a request is sent in the step that fetched     *)
(* the session; aclose() marks the session closed before it awaits.         *)

\* the fetches the tasks run: list_all_controls() and list_all_monitors()
\* without a filter, q = 0, and list_all_controls(search), q = 1
ConcCalls == {[op |-> "list_all_controls", q |-> 0],
              [op |-> "list_all_controls", q |-> 1],
              [op |-> "list_all_monitors", q |-> 0]}

\* the upstream holds, for search q, T records of their own
SearchShift == 4 * NullFrom
Shifted(data, q) == [i \in DOMAIN data |-> data[i] + q * SearchShift]

\* the page of a consistent upstream for the query parameters p
SearchPage(p) ==
    LET page == ConsistentPage(p)
    IN  [page EXCEPT !.data = Shifted(@, p.q)]

\* a page counter that the tasks share: task t resumes with the highest page
\* any waiting task has asked for
FrameSharedPage(ts, t) ==
    LET pages == {ts[u].params.page : u \in {v \in DOMAIN ts : ts[v].pc = "awaiting"}}
        top == CHOOSE p \in pages : \A r \in pages : r <= p
    IN  [ts[t] EXCEPT !.params.page = top]

\* the locals of the call that runs in task t
Frame(ts, t) == ts[t]

\* _request up to its suspension, in task t whose locals are f: the session
\* is fetched or built and the request sent; httpx raises when the session is
\* closed
TaskSend(t, f) ==
    LET s == GetClientSessions(self_client, sessions)
        sid == GetClient(self_client, sessions)
        open == ~s[sid].is_closed
        e == [path |-> f.op, method |-> Method(f.op), page |-> f.params.page,
              limit |-> f.params.limit, q |-> f.params.q,
              session |-> sid, session_open |-> open,
              status |-> Missing, n |-> 0]
    IN  /\ sessions' = s
        /\ self_client' = sid
        /\ tasks' = [tasks EXCEPT ![t] =
               [f EXCEPT !.pc = IF open THEN "awaiting" ELSE "raised",
                         !.session = sid,
                         !.exchanges = Append(@, e)]]

\* list_all_controls(search) or list_all_monitors() in task t, from the call
\* to the first page request
TaskStartFetch(t, call) ==
    /\ tasks[t].pc \in {"idle", "returned", "raised"}
    /\ SessionsLeft
    /\ TaskSend(t, [NoFrame EXCEPT !.op = call.op,
                       !.params = [page |-> 1, limit |-> MAX_PAGE_SIZE, q |-> call.q]])
    /\ UNCHANGED <<upstream, pc, op, params, all_data, total, exchanges, result,
                   toolvars>>

\* the answers a request can get: the upstream's page, or an error of the
\* transport when the session was closed under the request
Answers(f) ==
    {[lost |-> FALSE, resp |-> SearchPage(f.params)]}
    \cup (IF sessions[f.session].is_closed
          THEN {[lost |-> TRUE, resp |-> [status |-> 0, data |-> <<>>, total |-> Missing]]}
          ELSE {})

\* the answer to the page request of task t arrives: the rest of the loop
\* body, and the next page request if the loop goes on
TaskReceive(t) ==
    /\ tasks[t].pc = "awaiting"
    /\ \E a \in Answers(tasks[t]) :
        LET f == Frame(tasks, t)
            resp == a.resp
            ok == ~a.lost /\ ~RaiseForStatus(resp)
            data == resp.data
            tot == GetOr(resp.total, f.total)
            acc == Extend(f.all_data, data)
            answered == [f EXCEPT !.exchanges[Len(f.exchanges)] =
                            [@ EXCEPT !.status = resp.status, !.n = Len(data)]]
        IN  IF ~ok
            THEN /\ tasks' = [tasks EXCEPT ![t] = [answered EXCEPT !.pc = "raised"]]
                 /\ UNCHANGED <<self_client, sessions>>
            ELSE IF StopsLoop(data, acc, tot)
            THEN /\ tasks' = [tasks EXCEPT ![t] =
                        [answered EXCEPT !.pc = "returned",
                                         !.all_data = acc, !.total = tot,
                                         !.result = [data |-> acc, total |-> tot]]]
                 /\ UNCHANGED <<self_client, sessions>>
            ELSE /\ SessionsLeft
                 /\ TaskSend(t, [answered EXCEPT !.all_data = acc, !.total = tot,
                                                 !.params = NextPage(f.params)])
    /\ UNCHANGED <<upstream, pc, op, params, all_data, total, exchanges, result,
                   toolvars>>

\* close() in task t, up to the suspension in aclose(), or to its end when
\* there is nothing to close
TaskClose(t) ==
    /\ tasks[t].pc \in {"idle", "returned", "raised"}
    /\ sessions' = CloseSessions(self_client, sessions)
    /\ tasks' = [tasks EXCEPT ![t] =
           [NoFrame EXCEPT !.op = "close",
                           !.pc = IF ShouldClose(self_client, sessions)
                                  THEN "closing" ELSE "returned",
                           !.session = self_client]]
    /\ UNCHANGED <<upstream, self_client, pc, op, params, all_data, total,
                   exchanges, result, toolvars>>

\* aclose() ends in task t
TaskCloseEnd(t) ==
    /\ tasks[t].pc = "closing"
    /\ tasks' = [tasks EXCEPT ![t].pc = "returned"]
    /\ UNCHANGED <<upstream, clientvars, toolvars>>

ConcTotals == {MAX_PAGE_SIZE, MAX_PAGE_SIZE + 1, MaxRecords}

ConcInit ==
    /\ upstream \in {u \in Upstreams : u.consistent /\ u.T \in ConcTotals}
    /\ api_key = TRUE
    /\ ClientInit
    /\ ToolInit

ConcNext ==
    \/ \E t \in Tasks, call \in ConcCalls : TaskStartFetch(t, call)
    \/ \E t \in Tasks : TaskReceive(t)
    \/ \E t \in Tasks : TaskClose(t)
    \/ \E t \in Tasks : TaskCloseEnd(t)

ConcSpec == ConcInit /\ [][ConcNext]_vars

----------------------------------------------------------------------------
(* Properties of the client *)


FullFetch == op \in PaginateOps

\* C1: a full-collection fetch against a consistent upstream holding T
\* records (total = T on every page, at most MAX_PAGE_SIZE records per page,
\* in order) returns, and its data is the T upstream records, each once and
\* in upstream order, with total = T.
C1_FullFetchReturnsAll ==
    (FullFetch /\ upstream.consistent) =>
        /\ pc # "raised"
        /\ pc = "returned" =>
            /\ result.data = Run(upstream.base, upstream.T)
            /\ result.total = upstream.T

\* T is two whole pages, and the fetch has returned them
C1_Witness ==
    /\ FullFetch /\ upstream.consistent /\ pc = "returned"
    /\ upstream.T = 2 * MAX_PAGE_SIZE
    /\ Len(result.data) = 2 * MAX_PAGE_SIZE
    /\ Len(exchanges) = 2

\* C2: whenever a full-collection fetch returns, whatever the upstream
\* answered, the number of records it returns equals the total it returns.
C2_CountEqualsTotal ==
    (FullFetch /\ pc = "returned") => Len(result.data) = result.total

\* the page an exchange brought ended the loop
Stopped(e) == e.n < MAX_PAGE_SIZE \/ e.acc >= e.total

\* C3: a full-collection fetch requests pages 1, 2, 3, ... in turn, each with
\* limit MAX_PAGE_SIZE; every page but the last one requested was a full page
\* that left the accumulator below the reported total; the fetch has returned
\* exactly when the last page was short or filled the accumulator up to the
\* total, and otherwise the next request is for the next page.
C3_ConsecutivePages ==
    FullFetch =>
        /\ \A i \in 1..Len(exchanges) :
            /\ exchanges[i].page = i
            /\ exchanges[i].limit = MAX_PAGE_SIZE
        /\ \A i \in 1..(Len(exchanges) - 1) :
            exchanges[i].status = 200 /\ ~Stopped(exchanges[i])
        /\ pc = "returned" <=>
            /\ exchanges # <<>>
            /\ Last(exchanges).status = 200
            /\ Stopped(Last(exchanges))
        /\ pc = "paging" => params.page = Len(exchanges) + 1

\* a fetch that went on to a third page and returned after it
C3_Witness ==
    /\ FullFetch /\ pc = "returned"
    /\ Len(exchanges) = 3
    /\ exchanges[2].n = MAX_PAGE_SIZE

\* C4: when a page request of a full-collection fetch is answered with a
\* non-success status, that request is the last one of the fetch, the fetch
\* has raised, and nothing was returned to the caller.
C4_ErrorAborts ==
    FullFetch =>
        \A i \in 1..Len(exchanges) :
            exchanges[i].status # 200 =>
                /\ i = Len(exchanges)
                /\ pc = "raised"
                /\ result = NoResult

\* page 2 failed after page 1 had been accumulated
C4_Witness ==
    /\ FullFetch /\ pc = "raised"
    /\ Len(exchanges) = 2
    /\ exchanges[1].acc = MAX_PAGE_SIZE
    /\ exchanges[2].status # 200

\* C5: every request of a single-page operation carries a limit of at most
\* MAX_PAGE_SIZE.
C5_LimitCapped ==
    op \in SinglePageOps =>
        \A i \in 1..Len(exchanges) : exchanges[i].limit <= MAX_PAGE_SIZE

\* a step that sends a request
RequestStep == Len(exchanges') = Len(exchanges) + 1

\* C6: no session exists before the first request; a request made while the
\* session is open is sent on that session and creates none; a request made
\* with no session or a closed one creates a fresh session and is sent on it;
\* no request is sent on a closed session; nothing but a request creates or
\* replaces a session.
C6_SessionLifecycle ==
    /\ self_client = None /\ sessions = <<>>
    /\ [][/\ RequestStep =>
              LET e == Last(exchanges') IN
              /\ e.session_open
              /\ self_client' = e.session
              /\ ~sessions'[e.session].is_closed
              /\ IF self_client # None /\ ~sessions[self_client].is_closed
                 THEN e.session = self_client /\ sessions' = sessions
                 ELSE /\ e.session = Len(sessions) + 1
                      /\ sessions' = Append(sessions, NewSession)
              /\ pc' = "raised" => e.status # 200
          /\ ~RequestStep =>
              /\ self_client' = self_client
              /\ Len(sessions') = Len(sessions)
         ]_vars

\* a request after close() was answered on a second session
C6_Witness ==
    /\ Len(sessions) = 2
    /\ sessions[1].is_closed
    /\ self_client = 2
    /\ pc = "returned"
    /\ exchanges # <<>>
    /\ Last(exchanges).session = 2

\* C7: close() with no session changes nothing; close() after close() changes
\* nothing more; no session is ever closed twice.
C7_CloseIdempotent ==
    /\ \A i \in 1..Len(sessions) :
        /\ sessions[i].aclose_calls <= 1
        /\ sessions[i].is_closed <=> sessions[i].aclose_calls = 1
    /\ LET once == CloseSessions(self_client, sessions)
       IN  CloseSessions(self_client, once) = once
    /\ self_client = None => CloseSessions(self_client, sessions) = sessions

\* close() has closed the one session there is
C7_Witness ==
    /\ op = "close" /\ pc = "returned"
    /\ Len(sessions) = 1
    /\ sessions[1].is_closed
    /\ sessions[1].aclose_calls = 1

\* C12: get_personnel_by_email raises its not-found error exactly when the
\* upstream answered with success and an empty result set or no data at all,
\* which is told apart from a failed request; it returns exactly when the
\* result set is not empty, and what it returns is the first record of the
\* result set, not the set.
C12_LookupByEmail ==
    (op = "get_personnel_by_email" /\ pc \in {"returned", "raised", "not_found"}) =>
        /\ Len(exchanges) = 1
        /\ pc = "raised" <=> exchanges[1].status # 200
        /\ pc = "not_found" <=>
               /\ exchanges[1].status = 200
               /\ ~exchanges[1].has_data \/ exchanges[1].n = 0
        /\ pc = "returned" <=>
               /\ exchanges[1].status = 200
               /\ exchanges[1].has_data /\ exchanges[1].n > 0
        /\ pc = "returned" => result = exchanges[1].first
        /\ pc # "returned" => result = NoResult

\* the first of two matching records has been returned
C12_Witness ==
    /\ op = "get_personnel_by_email" /\ pc = "returned"
    /\ exchanges[1].n = 2
    /\ result = exchanges[1].first

\* an answer without a data key has raised not-found
C12_WitnessNoData ==
    /\ op = "get_personnel_by_email" /\ pc = "not_found"
    /\ ~exchanges[1].has_data

\* C17: every request sent, by any operation of the client, by list_users'
\* own call of _request and by the client calls of the tools, is a GET
\* request.
C17_ReadOnly ==
    /\ \A i \in DOMAIN exchanges : exchanges[i].method = "GET"
    /\ \A i \in DOMAIN fetched.requests : fetched.requests[i].method = "GET"

\* list_users has sent its request
C17_Witness ==
    /\ op = "list_users" /\ pc = "returned"
    /\ Len(exchanges) = 1
    /\ exchanges[1].method = "GET"

----------------------------------------------------------------------------
(* Properties of the tool layer *)

Present(v) == v # "None"
IsTrue(v) == v = "True"

\* the status section 4.2 gives a control, by its five fields
StatedStatus(c) ==
    LET archived == Present(ControlGet(c, "archivedAt"))
        ready == IsTrue(ControlGet(c, "isReady"))
        owner == IsTrue(ControlGet(c, "hasOwner"))
        monitored == IsTrue(ControlGet(c, "isMonitored"))
        evidence == IsTrue(ControlGet(c, "hasEvidence"))
    IN  CASE archived -> "ARCHIVED"
          [] ~archived /\ ~ready -> "NOT_READY"
          [] ~archived /\ ready /\ ~owner -> "NO_OWNER"
          [] ~archived /\ ready /\ owner /\ monitored /\ evidence -> "PASSING"
          [] ~archived /\ ready /\ owner /\ ~evidence -> "NEEDS_EVIDENCE"
          [] ~archived /\ ready /\ owner /\ ~monitored /\ evidence -> "READY"

\* C8: for every combination of archivedAt, isReady, hasOwner, isMonitored
\* and hasEvidence, a flag being absent, false or true, _get_control_status
\* gives the one status of the priority list: ARCHIVED, else NOT_READY, else
\* NO_OWNER, else PASSING, else NEEDS_EVIDENCE, else READY.
C8_ControlStatus ==
    tool = "_get_control_status" =>
        /\ tool_result.status = StatedStatus(tool_args.c)
        /\ tool_result.status \in {"ARCHIVED", "NOT_READY", "NO_OWNER", "PASSING",
                                   "NEEDS_EVIDENCE", "READY"}

\* an archived control that is not ready is ARCHIVED
C8_Witness ==
    /\ tool = "_get_control_status"
    /\ Present(ControlGet(tool_args.c, "archivedAt"))
    /\ ControlGet(tool_args.c, "isReady") = "False"
    /\ tool_result.status = "ARCHIVED"

IssueStatuses == {"NOT_READY", "NO_OWNER", "NEEDS_EVIDENCE"}
HasIssue(c) == _get_control_status(c) \in IssueStatuses

ListControlsReturned ==
    /\ tool \in {"list_controls", "list_controls_with_issues"}
    /\ tool_pc = "returned"

\* C9: list_controls(only_issues=True), and list_controls_with_issues, return
\* the fetched controls whose derived status is NOT_READY, NO_OWNER or
\* NEEDS_EVIDENCE, all of them and no other, in the order fetched.
C9_OnlyIssues ==
    /\ tool = "list_controls_with_issues" => tool_args.only_issues
    /\ (ListControlsReturned /\ tool_args.only_issues) =>
        /\ [i \in DOMAIN tool_result.controls |-> tool_result.controls[i].id]
               = SelectSeq(fetched.result.data, HasIssue)
        /\ \A i \in DOMAIN tool_result.controls :
               /\ tool_result.controls[i].status \in IssueStatuses
               /\ tool_result.controls[i].status
                      = _get_control_status(tool_result.controls[i].id)

\* list_controls_with_issues has kept some of a full page and dropped a
\* READY, a PASSING and an ARCHIVED control
C9_Witness ==
    /\ tool = "list_controls_with_issues" /\ tool_pc = "returned"
    /\ tool_result.showing > 0
    /\ \A s \in {"READY", "PASSING", "ARCHIVED"} :
           \E i \in DOMAIN fetched.result.data :
               _get_control_status(fetched.result.data[i]) = s

SummaryReturned == tool = "get_compliance_summary" /\ tool_pc = "returned"

FailedMonitors(data) ==
    {i \in DOMAIN data : MonitorGet(data[i], "checkResultStatus") = "FAILED"}
CurrentFailingPersonnel(data) ==
    {i \in DOMAIN data :
        LET status == PersonnelGet(data[i], "employmentStatus")
            failing == PersonnelGet(data[i], "devicesFailingComplianceCount")
        IN  /\ status # NoStatus /\ status[1] = "CURRENT"
            /\ failing # Missing /\ failing > 0}
FailedConnections(data) ==
    {i \in DOMAIN data : ConnectionGet(data[i], "failedAt") # "None"}

StatedIssues ==
    Cardinality(FailedMonitors(fetched.monitors_data))
    + Cardinality(CurrentFailingPersonnel(fetched.personnel_data))
    + Cardinality(FailedConnections(fetched.connections_data))

\* C10: get_compliance_summary's total_issues is the number of FAILED monitors
\* plus the number of current personnel with a failing-device count above 0
\* plus the number of connections with a failure timestamp, counted over the
\* pages it fetched; its status is COMPLIANT when that sum is 0 and
\* NEEDS_ATTENTION otherwise.
C10_SummaryIssues ==
    SummaryReturned =>
        /\ tool_result.total_issues = StatedIssues
        /\ tool_result.status =
               IF StatedIssues = 0 THEN "COMPLIANT" ELSE "NEEDS_ATTENTION"

\* a summary whose only issues are failed connections
C10_Witness ==
    /\ SummaryReturned
    /\ fetched.monitors_data # <<>> /\ fetched.personnel_data # <<>>
    /\ FailedMonitors(fetched.monitors_data) = {}
    /\ CurrentFailingPersonnel(fetched.personnel_data) = {}
    /\ FailedConnections(fetched.connections_data) # {}
    /\ tool_result.status = "NEEDS_ATTENTION"

SummaryCalls == <<"list_controls", "list_monitors", "list_personnel",
                  "list_connections">>

\* C11: an invocation of get_compliance_summary sends four GET requests and no
\* more: list_controls, list_monitors, list_personnel, list_connections in
\* that order, each for page 1 with limit 50; the k-th request is sent only
\* once the k-1 before it have been answered, and it is the only one in
\* flight; no request follows the fourth, whatever total was reported; a
\* failed request is the last one.
C11_SummaryRequests ==
    tool = "get_compliance_summary" =>
        LET reqs == fetched.requests IN
        /\ Len(reqs) <= 4
        /\ \A i \in 1..Len(reqs) :
               reqs[i] = [op |-> SummaryCalls[i], method |-> "GET",
                          page |-> 1, limit |-> MAX_PAGE_SIZE]
        /\ \A i \in 1..4 :
               tool_pc = SummaryCalls[i] =>
                   /\ Len(reqs) = i - 1
                   /\ pc = "request" /\ op = SummaryCalls[i]
                   /\ params = [page |-> 1, limit |-> MAX_PAGE_SIZE]
        /\ tool_pc = "returned" => Len(reqs) = 4 /\ pc = "idle"
        /\ tool_pc = "raised" =>
               \/ reqs = <<>> /\ GetClientRaises
               \/ reqs # <<>> /\ pc = "raised"
        /\ pc # "paging"

\* a summary returned after four requests although more than a page of
\* controls was reported
C11_Witness ==
    /\ SummaryReturned
    /\ fetched.controls_total > MAX_PAGE_SIZE
    /\ Len(fetched.monitors_data) = MAX_PAGE_SIZE
    /\ Len(fetched.requests) = 4

ControlDetailsReturned == tool = "get_control_details" /\ tool_pc = "returned"
HasError(r) == "error" \in DOMAIN r

\* the positions of the search results whose code is the one asked for
CodeMatches ==
    {i \in DOMAIN fetched.result.data :
        ControlGet(fetched.result.data[i], "code") = tool_args.control_code}

\* C13: get_control_details(code) returns the first search result whose code
\* is exactly the code asked for, whatever other results precede it; when
\* the search brought none, it returns a record with an error field and
\* does not raise; it goes on to the monitors, or fails in its own code,
\* only after a match.
C13_ExactMatch ==
    tool = "get_control_details" =>
        /\ (tool_pc = "returned" /\ CodeMatches # {}) =>
               /\ ~HasError(tool_result)
               /\ tool_result.code = tool_args.control_code
               /\ \E i \in CodeMatches :
                      /\ tool_result.id = fetched.result.data[i]
                      /\ \A j \in CodeMatches : i <= j
        /\ (tool_pc = "returned" /\ CodeMatches = {}) =>
               tool_result = [error |-> tool_args.control_code]
        /\ (tool_pc = "list_monitors" \/ tool_result = Raised("TypeError")) =>
               CodeMatches # {}

\* the control asked for was found behind a search result with another code
C13_Witness ==
    /\ ControlDetailsReturned
    /\ ~HasError(tool_result)
    /\ tool_result.code = "DCF-12"
    /\ ControlGet(fetched.result.data[1], "code") = "DCF-1"
    /\ tool_result.id # fetched.result.data[1]

\* a search with results, none of them with the code asked for, has ended
\* in an error record
C13_WitnessNotFound ==
    /\ ControlDetailsReturned
    /\ fetched.result.data # <<>>
    /\ tool_result = [error |-> tool_args.control_code]

\* the monitors a consistent upstream holds
UpstreamMonitors == Run(upstream.base, upstream.T)

\* C14: on a consistent upstream, the linked_monitors of a get_control_details
\* that found its control are all the upstream's monitors attached to the
\* code, however many monitors the upstream holds, and so are the monitors
\* get_monitors_for_control returns.
C14_AllLinkedMonitors ==
    /\ (ControlDetailsReturned /\ upstream.consistent /\ ~HasError(tool_result)) =>
           tool_result.linked_monitors =
               LinkedMonitors(UpstreamMonitors, tool_args.control_code)
    /\ (tool = "get_monitors_for_control" /\ tool_pc = "returned"
            /\ upstream.consistent) =>
           tool_result.monitors =
               LinkedMonitors(UpstreamMonitors, tool_args.control_code)

\* C15: a tool raises only when get_client() raised or a request of its
\* client call failed: no record of a successful answer, whichever of its
\* fields are absent or null, makes the tool's own code raise.
C15_AbsentFieldsTolerated ==
    tool_pc = "raised" =>
        /\ pc = "raised" \/ GetClientRaises
        /\ ~("exception" \in DOMAIN tool_result)

\* C16: there is no client when the server starts.  An invocation made with
\* no client and no key raises, stores no client and sends no request.  An
\* invocation made with no client and a key builds the client, which has no
\* session yet.  An invocation made with a client keeps that client, with
\* the session it has.  Nothing but an invocation touches the global, and
\* without a client no request was ever sent.
C16_LazyClient ==
    /\ _client = "None"
    /\ [](_client = "None" => sessions = <<>> /\ exchanges = <<>>)
    /\ [](~api_key => _client = "None")
    /\ [][/\ ToolReady =>
              IF _client = "None" /\ ~api_key
              THEN /\ tool_pc' = "raised"
                   /\ _client' = "None"
                   /\ sessions' = sessions /\ exchanges' = exchanges /\ pc' = pc
              ELSE /\ tool_pc' # "raised"
                   /\ _client' = "DrataClient"
                   /\ _client = "None" => self_client' = None /\ sessions' = <<>>
                   /\ _client # "None" =>
                          self_client' = self_client /\ sessions' = sessions
          /\ ~ToolReady => _client' = _client
         ]_vars

\* a later invocation has reached its first request with the client, and the
\* session, an earlier one left
C16_Witness ==
    /\ api_key /\ _client = "DrataClient"
    /\ tool_pc \notin {"idle", "returned", "raised"}
    /\ exchanges = <<>>
    /\ Len(sessions) = 1 /\ self_client = 1

\* an invocation without a key has raised
C16_WitnessNoKey ==
    /\ ~api_key /\ tool # "none" /\ tool_pc = "raised"
    /\ _client = "None"

\* the endpoint the documentation gives for a region
StatedEndpoint(region) ==
    CASE region = "us" -> "https://public-api.drata.com"
      [] region = "eu" -> "https://public-api.eu.drata.com"
      [] region = "apac" -> "https://public-api.apac.drata.com"
      [] OTHER -> "https://public-api.drata.com"

\* C18: a client built without a region holds "us"; whatever region it is
\* built with, the construction succeeds, and its base_url, as read by the
\* caller and as given to the session, is the endpoint of us, eu or apac
\* for these three regions and the endpoint of us for any other region.
C18_BaseUrl ==
    tool = "DrataClient" =>
        /\ tool_pc = "returned"
        /\ tool_args.arg = "omitted" => tool_args.region = "us"
        /\ tool_result.base_url = StatedEndpoint(tool_args.region)
        /\ tool_result.session_base_url = StatedEndpoint(tool_args.region)

\* a client of the region apac
C18_Witness ==
    /\ tool = "DrataClient"
    /\ tool_args.region = "apac"
    /\ tool_result.base_url = "https://public-api.apac.drata.com"

\* a client of a region nobody knows
C18_WitnessFallback ==
    /\ tool = "DrataClient"
    /\ tool_args.region = "uk"
    /\ tool_result.base_url = BASE_URL

FailingMonitorsReturned == tool = "list_failing_monitors" /\ tool_pc = "returned"

IsFailed(m) == MonitorGet(m, "checkResultStatus") = "FAILED"

\* the length of the upstream description of monitor m, 0 when it has none
DescriptionLen(m) ==
    IF MonitorGet(m, "description") = Missing THEN 0
    ELSE MonitorGet(m, "description")

\* C19: list_failing_monitors returns the FAILED monitors of what it fetched,
\* all of them and no other, in order, and what it fetches from a consistent
\* upstream is the whole collection; total_failed is their number; each
\* description is the upstream description cut after 200 characters; the
\* message is the all-passing line exactly when total_failed is 0.
C19_FailingMonitors ==
    FailingMonitorsReturned =>
        LET out == tool_result.failing_monitors IN
        /\ [i \in DOMAIN out |-> out[i].id] = SelectSeq(fetched.result.data, IsFailed)
        /\ upstream.consistent =>
               [i \in DOMAIN out |-> out[i].id] = SelectSeq(UpstreamMonitors, IsFailed)
        /\ tool_result.total_failed = Len(out)
        /\ \A i \in DOMAIN out :
               /\ out[i].description.len <= 200
               /\ out[i].description.len = Min(DescriptionLen(out[i].id), 200)
               /\ out[i].description.len > 0 => out[i].description.text = out[i].id
        /\ tool_result.message.line = "All tests passing"
               <=> tool_result.total_failed = 0

\* more than a page of monitors, and a description of 201 characters cut to
\* 200
C19_Witness ==
    /\ FailingMonitorsReturned
    /\ Len(fetched.result.data) > MAX_PAGE_SIZE
    /\ tool_result.total_failed > 0
    /\ \E i \in DOMAIN tool_result.failing_monitors :
           /\ DescriptionLen(tool_result.failing_monitors[i].id) = 201
           /\ tool_result.failing_monitors[i].description.len = 200

\* no failed monitor, and the all-passing line
C19_WitnessAllPassing ==
    /\ FailingMonitorsReturned
    /\ fetched.result.data # <<>>
    /\ tool_result.total_failed = 0
    /\ tool_result.message.line = "All tests passing"

PersonnelWithIssuesReturned ==
    tool = "list_personnel_with_issues" /\ tool_pc = "returned"

\* a current person with a failing-device count above 0
CurrentAndFailing(p) ==
    LET status == PersonnelGet(p, "employmentStatus")
        failing == PersonnelGet(p, "devicesFailingComplianceCount")
    IN  /\ status # NoStatus /\ status[1] = "CURRENT"
        /\ failing # Missing /\ failing > 0

\* C20: list_personnel_with_issues returns the personnel of what it fetched
\* whose employment status starts with CURRENT and whose failing-device
\* count is above 0, a missing status or count never qualifying: all of
\* them and no other, in order; what it fetches from a consistent upstream
\* is the whole collection; total_with_issues is their number.
C20_PersonnelWithIssues ==
    PersonnelWithIssuesReturned =>
        LET out == tool_result.personnel IN
        /\ [i \in DOMAIN out |-> out[i].id]
               = SelectSeq(fetched.result.data, CurrentAndFailing)
        /\ upstream.consistent =>
               [i \in DOMAIN out |-> out[i].id]
                   = SelectSeq(Run(upstream.base, upstream.T), CurrentAndFailing)
        /\ \A i \in DOMAIN out :
               /\ out[i].employmentStatus[1] = "CURRENT"
               /\ out[i].devicesFailingCount > 0
        /\ tool_result.total_with_issues = Len(out)

\* more than a page of personnel, with a former person whose devices fail
\* and a current one whose devices do not, both left out
C20_Witness ==
    /\ PersonnelWithIssuesReturned
    /\ Len(fetched.result.data) > MAX_PAGE_SIZE
    /\ tool_result.total_with_issues > 0
    /\ \E i \in DOMAIN fetched.result.data :
           LET p == fetched.result.data[i] IN
           /\ PersonnelGet(p, "employmentStatus")[1] = "FORMER"
           /\ PersonnelGet(p, "devicesFailingComplianceCount") = 2
    /\ \E i \in DOMAIN fetched.result.data :
           LET p == fetched.result.data[i] IN
           /\ PersonnelGet(p, "employmentStatus")[1] = "CURRENT"
           /\ PersonnelGet(p, "devicesFailingComplianceCount") = 0

----------------------------------------------------------------------------
(* C21 *)

LimitToolReturned == tool \in LimitTools /\ tool_pc = "returned"

\* C21: against a consistent upstream, a tool with a limit argument documented
\* as "Max results" sends the caller's limit, capped at 50, and returns at
\* most limit records
C21_LimitHonoured ==
    (LimitToolReturned /\ upstream.consistent) =>
        /\ exchanges[1].limit = Min(tool_args.limit, MAX_PAGE_SIZE)
        /\ Len(tool_result.records) <= tool_args.limit

----------------------------------------------------------------------------
(* C22 *)

\* a full-collection fetch whose first page was not empty and left the total
\* at 0
ZeroTotalFirstPage ==
    /\ FullFetch
    /\ exchanges # <<>>
    /\ exchanges[1].status = 200
    /\ exchanges[1].total = 0
    /\ exchanges[1].n > 0

\* C22, as stated: when the upstream reports a total of 0 and the first page
\* is not empty, the fetch ends with that page, and the page held fewer than
\* MAX_PAGE_SIZE records (condition (a)).
C22_ZeroTotalStopsOnShortPage ==
    ZeroTotalFirstPage =>
        /\ pc = "returned"
        /\ Len(exchanges) = 1
        /\ exchanges[1].n < MAX_PAGE_SIZE

\* C22, amended: when the upstream reports a total of 0 and the first page is
\* not empty, the fetch ends with that page and returns its records; the
\* accumulator has reached the total (condition (b)) whatever the size of the
\* page, and the page is short (condition (a)) only when it holds fewer than
\* MAX_PAGE_SIZE records.
C22_ZeroTotalStops ==
    ZeroTotalFirstPage =>
        /\ pc = "returned"
        /\ Len(exchanges) = 1
        /\ Len(result.data) = exchanges[1].n
        /\ result.total = 0
        /\ exchanges[1].acc >= exchanges[1].total

\* a full first page with a total of 0: the fetch has ended, and not on a
\* short page
C22_Witness ==
    /\ ZeroTotalFirstPage
    /\ exchanges[1].n = MAX_PAGE_SIZE
    /\ pc = "returned"
    /\ Len(result.data) = MAX_PAGE_SIZE

\* a short first page with a total of 0
C22_WitnessShortPage ==
    /\ ZeroTotalFirstPage
    /\ exchanges[1].n = 1
    /\ pc = "returned"

----------------------------------------------------------------------------
(* C23 *)

\* C23: the recommendation of a compliance summary is about the failing
\* monitors when there are any, else about the failed connections when there
\* are any, else about the personnel with issues when there are any, and else
\* the all-compliant text; it carries the count of the category it names; the
\* all-compliant text is given exactly when the status is COMPLIANT.
C23_Recommendation ==
    SummaryReturned =>
        LET monitors == Cardinality(FailedMonitors(fetched.monitors_data))
            connections == Cardinality(FailedConnections(fetched.connections_data))
            personnel == Cardinality(CurrentFailingPersonnel(fetched.personnel_data))
            r == tool_result.recommendation
        IN  /\ monitors > 0 =>
                /\ r.line = "Priority: Investigate failing monitors"
                /\ r.count = monitors
            /\ (monitors = 0 /\ connections > 0) =>
                /\ r.line = "Priority: Fix failed connections"
                /\ r.count = connections
            /\ (monitors = 0 /\ connections = 0 /\ personnel > 0) =>
                /\ r.line = "Action needed: personnel device issues"
                /\ r.count = personnel
            /\ r.line = "All systems compliant - ready for audit" <=>
                   tool_result.status = "COMPLIANT"
            /\ tool_result.status = "COMPLIANT" <=>
                   (monitors = 0 /\ connections = 0 /\ personnel = 0)

\* a summary with failed connections and personnel with issues, and no failing
\* monitor: the recommendation is about the connections
C23_Witness ==
    /\ SummaryReturned
    /\ FailedMonitors(fetched.monitors_data) = {}
    /\ FailedConnections(fetched.connections_data) # {}
    /\ CurrentFailingPersonnel(fetched.personnel_data) # {}
    /\ tool_result.recommendation.line = "Priority: Fix failed connections"

\* a summary with no issue at all on non-empty pages
C23_WitnessCompliant ==
    /\ SummaryReturned
    /\ fetched.monitors_data # <<>>
    /\ fetched.personnel_data # <<>>
    /\ fetched.connections_data # <<>>
    /\ tool_result.recommendation.line = "All systems compliant - ready for audit"

----------------------------------------------------------------------------
(* C24 *)

FilterToolReturned == tool \in FilterTools /\ tool_pc = "returned"

\* the count the tool reports
ReportedCount ==
    IF tool = "list_events" THEN tool_result.total_events ELSE tool_result.total

\* record r carries the value the host asked for
Matching(r) == FieldOf(tool, r) = FilterOf(tool, tool_args)

\* the matching records of the page the tool fetched, and those of the
\* consistent upstream
MatchesFetched ==
    {i \in DOMAIN fetched.result.data : Matching(fetched.result.data[i])}
MatchesUpstream ==
    {i \in DOMAIN UpstreamMonitors : Matching(UpstreamMonitors[i])}

\* C24: list_assets(asset_type) and list_events(category) send one request,
\* for page 1; with a filter, the count they report is the number of matching
\* records of the page they fetched, and when the consistent upstream holds a
\* matching record that is not in that page, the count is below the number of
\* matching records the upstream holds.
C24_FilterAfterFetch ==
    FilterToolReturned =>
        /\ Len(exchanges) = 1
        /\ exchanges[1].page = 1
        /\ fetched.result.data = Run(upstream.base, exchanges[1].n)
        /\ Truthy(FilterOf(tool, tool_args)) =>
            /\ ReportedCount = Cardinality(MatchesFetched)
            /\ (/\ upstream.consistent
                /\ \E i \in MatchesUpstream : i > Len(fetched.result.data)) =>
                   ReportedCount < Cardinality(MatchesUpstream)

\* list_assets("CLOUD") against an upstream holding 101 assets, 34 of them
\* CLOUD: 17 are reported
C24_Witness ==
    /\ FilterToolReturned
    /\ tool = "list_assets" /\ tool_args.asset_type = "CLOUD"
    /\ upstream.consistent /\ upstream.T = 2 * MAX_PAGE_SIZE + 1
    /\ ReportedCount = 17
    /\ Cardinality(MatchesUpstream) = 34

\* list_events(limit, "CONTROL") with matching events past the page fetched
C24_WitnessEvents ==
    /\ FilterToolReturned
    /\ tool = "list_events" /\ tool_args.category = "CONTROL"
    /\ upstream.consistent
    /\ ReportedCount > 0
    /\ ReportedCount < Cardinality(MatchesUpstream)

----------------------------------------------------------------------------
(* C30 *)

\* the number of fetched controls with derived status st
WithDerivedStatus(st) ==
    Cardinality({i \in DOMAIN fetched.result.data :
                    _get_control_status(fetched.result.data[i]) = st})

\* C30: in a result of list_controls, showing is the number of controls
\* returned and total is the total the fetch last read from the upstream,
\* with or without only_issues; the three summary counts are those of the
\* NOT_READY, NO_OWNER and NEEDS_EVIDENCE controls among all the fetched ones,
\* hence the same with and without only_issues, and with only_issues their
\* sum is showing.
C30_ListControlsCounts ==
    ListControlsReturned =>
        /\ tool_result.showing = Len(tool_result.controls)
        /\ tool_result.total = Last(exchanges).total
        /\ tool_result.summary =
               [not_ready |-> WithDerivedStatus("NOT_READY"),
                no_owner |-> WithDerivedStatus("NO_OWNER"),
                needs_evidence |-> WithDerivedStatus("NEEDS_EVIDENCE")]
        /\ tool_result.summary = ListControlsResult(fetched.result, TRUE).summary
        /\ tool_result.total = ListControlsResult(fetched.result, TRUE).total
        /\ tool_args.only_issues =>
               tool_result.summary.not_ready + tool_result.summary.no_owner
                   + tool_result.summary.needs_evidence = tool_result.showing
        /\ ~tool_args.only_issues =>
               tool_result.showing = Len(fetched.result.data)

\* list_controls(only_issues=False) showing more controls than have issues,
\* with a total that is not the number of controls
C30_Witness ==
    /\ tool = "list_controls" /\ tool_pc = "returned"
    /\ ~tool_args.only_issues
    /\ tool_result.summary.not_ready > 0
    /\ tool_result.summary.no_owner > 0
    /\ tool_result.summary.needs_evidence > 0
    /\ tool_result.showing > tool_result.summary.not_ready
           + tool_result.summary.no_owner + tool_result.summary.needs_evidence
    /\ tool_result.total > tool_result.showing

\* list_controls(only_issues=True) with the same total and fewer controls
C30_WitnessOnlyIssues ==
    /\ tool = "list_controls" /\ tool_pc = "returned"
    /\ tool_args.only_issues
    /\ tool_result.showing > 0
    /\ tool_result.showing < Len(fetched.result.data)
    /\ tool_result.total = Len(fetched.result.data)

----------------------------------------------------------------------------
(* C27 *)

\* max(1, ceil(t / MAX_PAGE_SIZE))
PagesFor(t) ==
    IF t = 0 THEN 1 ELSE (t + MAX_PAGE_SIZE - 1) \div MAX_PAGE_SIZE

\* C27: against a consistent upstream holding T records a full-collection
\* fetch has sent max(1, ceil(T/50)) requests when it returns, and fewer
\* while it runs; with T = 0 it returns an empty result after its one request.
C27_RequestCount ==
    (FullFetch /\ upstream.consistent) =>
        /\ Len(exchanges) <= PagesFor(upstream.T)
        /\ pc = "paging" => Len(exchanges) < PagesFor(upstream.T)
        /\ pc = "returned" =>
            /\ Len(exchanges) = PagesFor(upstream.T)
            /\ upstream.T = 0 => (result.data = <<>> /\ Last(exchanges).n = 0)
            /\ Last(exchanges).n = upstream.T - (PagesFor(upstream.T) - 1) * MAX_PAGE_SIZE

\* an empty upstream: one request, an empty result
C27_Witness ==
    /\ FullFetch /\ upstream.consistent /\ pc = "returned"
    /\ upstream.T = 0
    /\ Len(exchanges) = 1
    /\ result.data = <<>>

\* T is one whole page: one request, and no request for an empty second page
C27_WitnessWholePage ==
    /\ FullFetch /\ upstream.consistent /\ pc = "returned"
    /\ upstream.T = MAX_PAGE_SIZE
    /\ Len(exchanges) = 1
    /\ Last(exchanges).n = MAX_PAGE_SIZE

----------------------------------------------------------------------------
(* C25 *)

\* C25: against an upstream that answers every request with a full page and
\* a total above the number of records accumulated, that page included, a
\* full-collection fetch never returns nor raises: after every answer it is
\* about to request the next page, and it holds MAX_PAGE_SIZE records per
\* request sent, however many requests it has sent.
C25_NeverTerminates ==
    FullFetch =>
        /\ pc = "paging"
        /\ result = NoResult
        /\ params.page = Len(exchanges) + 1
        /\ Len(all_data) = MAX_PAGE_SIZE * Len(exchanges)
        /\ exchanges # <<>> => total > Len(all_data)

\* the fetch after MaxGreedyPages pages, about to request one more
C25_Witness ==
    /\ FullFetch
    /\ pc = "paging"
    /\ Len(exchanges) = MaxGreedyPages
    /\ params.page = MaxGreedyPages + 1
    /\ Len(all_data) = MaxGreedyPages * MAX_PAGE_SIZE

----------------------------------------------------------------------------
(* C26 *)

\* C26: against an upstream that answers every request successfully and
\* never reports a total above MaxTotal, whatever pages it serves, a
\* full-collection fetch sends at most max(1, ceil(MaxTotal/50)) requests,
\* never raises, and eventually returns.
C26_BoundedFetchTerminates ==
    /\ [](FullFetch =>
            /\ Len(exchanges) <= PagesFor(MaxTotal)
            /\ pc # "raised")
    /\ (FullFetch /\ pc = "paging") ~> (FullFetch /\ pc = "returned")

\* a fetch that was served the first page again on every request, and that
\* returned after as many requests as the bound allows
C26_Witness ==
    /\ FullFetch /\ pc = "returned"
    /\ Len(exchanges) = PagesFor(MaxTotal)
    /\ \A i \in DOMAIN exchanges : exchanges[i].n = MAX_PAGE_SIZE
    /\ \A i \in DOMAIN result.data :
           result.data[i] = upstream.base + ((i - 1) % MAX_PAGE_SIZE)

----------------------------------------------------------------------------
(* C28 *)

\* the tasks that run a full-collection fetch
Fetching(t) == tasks[t].op \in PaginateOps

\* what the fetch of task t returns when it runs alone against the upstream
Alone(t) ==
    [data |-> Shifted(Run(upstream.base, upstream.T), tasks[t].params.q),
     total |-> upstream.T]

\* C28: of full-collection fetches that run interleaved on one client, each
\* requests pages 1, 2, 3, ... of its own resource with its own search
\* argument, none skipped and none repeated; while it waits for page k it
\* holds the records of pages 1 to k - 1 of its own collection; when it
\* returns, it returns what it returns when run alone; and it raises only
\* when close() shut the session under its request.
C28_NoInterference ==
    \A t \in Tasks : Fetching(t) =>
        LET f == tasks[t] IN
        /\ \A i \in DOMAIN f.exchanges :
            /\ f.exchanges[i].page = i
            /\ f.exchanges[i].limit = MAX_PAGE_SIZE
            /\ f.exchanges[i].path = f.op
            /\ f.exchanges[i].q = f.params.q
        /\ f.pc = "awaiting" =>
            /\ f.params.page = Len(f.exchanges)
            /\ f.all_data =
                   SubSeq(Alone(t).data, 1, MAX_PAGE_SIZE * (f.params.page - 1))
        /\ f.pc = "returned" =>
            /\ f.result = Alone(t)
            /\ Len(f.exchanges) = PagesFor(upstream.T)
        /\ f.pc = "raised" => sessions[f.session].is_closed

\* two fetches of different resources, one with a search argument, both
\* waiting for their second page with the first page of their own collection
C28_Witness ==
    /\ tasks[1].op = "list_all_controls" /\ tasks[1].params.q = 1
    /\ tasks[2].op = "list_all_monitors"
    /\ \A t \in {1, 2} :
        /\ tasks[t].pc = "awaiting"
        /\ tasks[t].params.page = 2
        /\ Len(tasks[t].all_data) = MAX_PAGE_SIZE
    /\ tasks[1].all_data # tasks[2].all_data

\* one of two fetches of the same resource has returned all the records
\* while the other waits for its third page
C28_WitnessReturned ==
    /\ tasks[1].op = "list_all_controls" /\ tasks[2].op = "list_all_controls"
    /\ upstream.T = MaxRecords
    /\ tasks[1].pc = "returned"
    /\ Len(tasks[1].result.data) = MaxRecords
    /\ tasks[2].pc = "awaiting"
    /\ tasks[2].params.page = 3

----------------------------------------------------------------------------
(* C29 *)

OpenSessions == {i \in DOMAIN sessions : ~sessions[i].is_closed}

\* C29: whatever the interleaving of the tasks' requests and close() calls,
\* at most one session is open; every session but the one the client holds
\* is closed, so that a session is replaced only once it is closed; no
\* session is shut down twice; and every request was sent on a session that
\* was open when it was sent.
C29_OneOpenSession ==
    /\ Cardinality(OpenSessions) <= 1
    /\ OpenSessions \subseteq {self_client}
    /\ self_client = None => sessions = <<>>
    /\ self_client # None => self_client = Len(sessions)
    /\ \A i \in DOMAIN sessions : sessions[i].aclose_calls <= 1
    /\ \A t \in Tasks : \A i \in DOMAIN tasks[t].exchanges :
        /\ tasks[t].exchanges[i].session_open
        /\ tasks[t].exchanges[i].session \in DOMAIN sessions

\* task 1 waits for an answer on session 1, which a close() has shut since,
\* and task 2 has sent a request on session 2, built in its place
C29_Witness ==
    /\ tasks[1].pc = "awaiting"
    /\ tasks[1].session = 1
    /\ sessions[1].is_closed
    /\ tasks[2].pc = "awaiting"
    /\ tasks[2].session = 2
    /\ ~sessions[2].is_closed
    /\ self_client = 2

\* two close() calls at once: the second one found the session closed
C29_WitnessTwoCloses ==
    /\ tasks[1].op = "close" /\ tasks[1].pc = "closing"
    /\ tasks[2].op = "close" /\ tasks[2].pc = "returned"
    /\ tasks[2].session = tasks[1].session
    /\ sessions[tasks[1].session].aclose_calls = 1

====
